---------------------------- MODULE Spec2Model ----------------------------
(***************************************************************************)
(* Rate inference and result aggregation of the Cassandra benchmark        *)
(* campaigns: the MeanRate inference over a reference row's result tree,   *)
(* the callers that resolve an inferred rate, the tidy/post aggregation    *)
(* of raw artifacts, and the two-level histogram merge.                    *)
(*                                                                         *)
(* Floating-point rates and times are modelled by integers; the infinite   *)
(* window end float("inf") is a record with an `inf` flag.                 *)
(***************************************************************************)
EXTENDS Integers, Sequences, FiniteSets, TLC

VARIABLES
    \* ---- rate inference (util/infer.py, experiment/util/infer.py) ----
    variant,        \* "experiment" (Infer.infer_from_expr) or "xp1_baseline" (infer_throughput)
    ref_present,    \* the reference id is a row of the full (unfiltered) table
    ref_dir_exists, \* basepath / ref_name exists on disk
    rate,           \* MeanRateInfer.rate
    start_time,     \* MeanRateInfer.start_time
    end_time,       \* MeanRateInfer.end_time
    ipc,            \* position of the inference
    df,             \* the dataframe read from the current csv file
    fdf,            \* _df, the filtered dataframe
    run_value,      \* the value reduced from the current file
    run_values,     \* values of the files of the current run directory
    set_values,     \* values of the run directories seen so far
    seen,           \* history: per run directory, the files globbed in it (their reference value)
    result,         \* the value returned to the caller
    outcome,        \* "none", "value", or the name of the exception that escaped
    logged,         \* the logging calls made: a set of levels/messages
    \* ---- result aggregation (experiment/tidy.py, xp1_baseline/post.py) ----
    agg,            \* "tidy" (experiment/tidy.py) or "post" (xp1_baseline/post.py)
    apc,            \* position of the aggregation
    set_i,          \* index of the current row of the parameters table
    repeat,         \* _repeat of the current row
    run_index,      \* run_index of the inner loop
    dfs,            \* per tidy category, the fragments appended (tagged id, run, host)
    on_disk,        \* history: the run directories the walk found, with their content
    key_i,          \* index of the category being saved
    written,        \* the csv files written under tidy/
    agg_outcome,    \* "none", "ok", or the exception that escaped
    agg_logged,     \* the warnings logged
    \* ---- histogram merge of one run (tidy.py 183-207, post.py 59-139) ----
    hv,             \* "tidy" (worker pool) or "post" (one process)
    h_start,        \* post(): start_time
    h_end,          \* post(): end_time
    hist_files,     \* per client host, the rows of its histograms.csv
    order,          \* the order in which glob yields the client hosts
    opc,            \* position of the orchestrating process
    next_k,         \* index in order of the host (post) or result (tidy) handled next
    wpc,            \* per host, the position of its worker (tidy) or of its turn (post)
    row_i,          \* per host, the index of the next retained row
    hist,           \* per host, the histogram merged from its rows
    results,        \* per host, the encoded histogram its worker returned
    run_hist,       \* latency_hist / global_hist: the histogram of the run
    merged,         \* history: the retained rows passed to hist.add
    merged_hosts,   \* history: the hosts whose histogram was passed to the run's add
    hist_dfs,       \* dfs["client_latency"] and dfs["latency"]: the summary rows
    hist_outcome,   \* "none", or the exception that escaped the merge
    \* ---- the campaign loop (experiment/run.py run) ----
    rpc,            \* position in run()
    set_k,          \* number of input rows taken so far
    cur,            \* the rate expressions and repeat of the current row
    limiters,       \* the three rate limiters parsed for the current row
    run_i,          \* run_index of the next run of the current row
    rate_log,       \* the runs launched for the current row: <<run_index, rate>>
    deployed,       \* rows for which the drivers were deployed
    acquired,       \* the testbed resources are held
    run_outcome,    \* "none", "ok", or the exception that escaped run()
    \* ---- the header of a dstat file (experiment/tidy.py 102-127) ----
    dstat_headers,  \* the two header lines: per column its group cell and its metric cell
    dstat_columns,  \* the column names of dstat_df after normalization
    dstat_outcome,  \* "read", "ok", or the exception raised
    \* ---- the Cassandra driver (drivers/Cassandra.py, drivers/CassandraDriver.py) ----
    cass,           \* the class of the driver object
    c_hosts,        \* self.hosts
    c_seeds,        \* self.seeds
    c_not_seeds,    \* self.not_seeds (empty when None)
    container,      \* per machine, the state of its Cassandra container
    remote_conf,    \* per machine, whether remote_root_path exists
    remote_data,    \* per machine, the entries of remote_data_path
    cpc,            \* position of the driver: "ready", or "start" / "sleep" inside start()
    start_k,        \* inside start(): index of the next host to start
    clock,          \* inside start(): seconds elapsed since start() was entered
    started_at,     \* inside start(): the containers started, <<host, time>>
    last_call,      \* the method called last and its reset argument
    c_outcome,      \* "none" or the exception the last call raised
    \* ---- a reference row, its inference and its tidy tables ----
    ref_repeat,     \* repeat of the reference row
    ref_runs,       \* the run directories on disk: entry k is the value of run-(k-1)
    ref_pc,         \* "campaign", "infer", "tidy" or "done"
    ref_visited,    \* the run indices infer() has visited
    ref_set_values, \* set_values of infer()
    ref_result,     \* the inferred rate
    tidy_runs,      \* the run indices tidy has put in its tables
    \* ---- build_yaml (drivers/util.py) ----
    template,       \* the tree loaded from the template file
    update_spec,    \* the update specification
    output,         \* the tree written to the output file
    yaml_outcome,   \* "call", "ok" or the exception raised
    \* ---- the rampup schedule (xp1_baseline/run.py, xp2_data_locality/run.py) ----
    rp_rows,        \* filtered_parameters: per row its rampup_mode and repeat
    rp_id,          \* index of the row being executed
    rp_run,         \* run_index
    rampup_done,    \* rampup_done["set"] and rampup_done["run"]
    rp_pc,          \* position inside run(): "rows", "run", "deployed", "stop"
    rp_log,         \* per run executed: its row, index, mode, reset, rampup
    rp_outcome,     \* "none", or the exception that left run()
    \* ---- the cycle ranges of the main commands of one run ----
    cy_campaign,    \* "xp" (xp1_baseline, xp2_data_locality) or "experiment"
    cy_ops,         \* _ops
    cy_clients,     \* _clients, the number of nb.hosts
    cy_ratio,       \* <<_read_ratio, _write_ratio>>
    cy_cmds,        \* main_cmds: per client its read and write range <<start, end>>
    cy_pc           \* "loop" while main_cmds is built, "launched" afterwards

inferVars == <<variant, ref_present, ref_dir_exists, rate, start_time, end_time, ipc,
               df, fdf, run_value, run_values, set_values, seen, result, outcome, logged>>

aggVars == <<agg, apc, set_i, repeat, run_index, dfs, on_disk, key_i, written,
             agg_outcome, agg_logged>>

histVars == <<hv, h_start, h_end, hist_files, order, opc, next_k, wpc, row_i, hist,
              results, run_hist, merged, merged_hosts, hist_dfs, hist_outcome>>

runVars == <<rpc, set_k, cur, limiters, run_i, rate_log, deployed, acquired, run_outcome>>

hdrVars == <<dstat_headers, dstat_columns, dstat_outcome>>

cassVars == <<cass, c_hosts, c_seeds, c_not_seeds, container, remote_conf, remote_data, cpc,
              start_k, clock, started_at, last_call, c_outcome>>

refVars == <<ref_repeat, ref_runs, ref_pc, ref_visited, ref_set_values, ref_result, tidy_runs>>

yamlVars == <<template, update_spec, output, yaml_outcome>>

rampVars == <<rp_rows, rp_id, rp_run, rampup_done, rp_pc, rp_log, rp_outcome>>

cycVars == <<cy_campaign, cy_ops, cy_clients, cy_ratio, cy_cmds, cy_pc>>

vars == <<inferVars, aggVars, histVars, runVars, hdrVars, cassVars, refVars, yamlVars, rampVars, cycVars>>

-----------------------------------------------------------------------------
(* Bounds and value domains *)

MaxRuns == 2
MaxFiles == 4
MaxRows == 2
MaxRunDirs == 2
MaxSnapshots == 3
MaxCorruptRun == 2
MaxSets == 2
MaxRepeat == 3

MeanRates == {9, 10, 12}
TimeStamps == {50, 51}
Rates == {1, 2}
Inf == [inf |-> TRUE, v |-> 0]
Fin(x) == [inf |-> FALSE, v |-> x]
Windows == {<<0, Inf>>, <<0, Fin(0)>>, <<1, Inf>>, <<3, Inf>>}

-----------------------------------------------------------------------------
(* Helpers *)

RECURSIVE SumSeq(_)
SumSeq(s) == IF s = <<>> THEN 0 ELSE Head(s) + SumSeq(Tail(s))

MaxSet(S) == CHOOSE x \in S : \A y \in S : y <= x

Range(s) == {s[i] : i \in DOMAIN s}

\* A result csv file as read by pd.read_csv: at least one sample row, the
\* elapsed-time column t non-decreasing (cumulative counters sampled at fixed intervals).
RawRows == [t : TimeStamps, mean_rate : MeanRates]

CsvFiles ==
    {f \in UNION {[1..n -> RawRows] : n \in 1..MaxRows} :
        \A i \in 1..(Len(f) - 1) : f[i].t <= f[i + 1].t}

-----------------------------------------------------------------------------
(* MeanRateInfer / MeanRateInference *)

\* filter_dataframe step 1: df["time"] = df[t] - t0 (the frame is mutated in place)
with_time(d) == [i \in DOMAIN d |-> [t |-> d[i].t, mean_rate |-> d[i].mean_rate,
                                     time |-> d[i].t - d[1].t]]

in_window_strict(r, s, e) == r.time > s /\ (e.inf \/ r.time <= e.v)

in_window(r, s, e) == r.time >= s /\ (e.inf \/ r.time <= e.v)

\* filter_dataframe step 2: the rows whose relative time lies in [start_time, end_time]
filter_dataframe(d, s, e) == SelectSeq(with_time(d), LAMBDA r : in_window(r, s, e))

\* the value pandas gives an empty reduction
NaN == 0 - 1

reduce_min(d) == CHOOSE x \in {d[i].mean_rate : i \in DOMAIN d} :
                    \A y \in {d[i].mean_rate : i \in DOMAIN d} : x <= y

\* Series.max(): NaN for an empty column
reduce_dataframe(d) == IF d = <<>> THEN NaN ELSE MaxSet({d[i].mean_rate : i \in DOMAIN d})

aggregate_run_max(values) == MaxSet(Range(values))

aggregate_run_values(values) == SumSeq(values)

aggregate_set_sum(values, r) == r * SumSeq(values)

aggregate_set_values(values, r) == r * MaxSet(Range(values))

\* the fallback of infer(): an empty filtered frame is replaced by the full frame
fallback_none(d, f) == f

fallback(d, f) == IF f = <<>> THEN with_time(d) ELSE f

\* the body of the inner loop of infer() for one csv file
file_value(d, s, e) == reduce_dataframe(fallback(d, filter_dataframe(d, s, e)))

\* the exception infer() raises on an empty set of run values
EmptySetError(v) == IF v = "experiment" THEN "EmptySetException" ELSE "Exception"

-----------------------------------------------------------------------------
(* Reference statement of the inference, from the recorded tree *)

\* max of mean_rate over the rows a file retains: those in the window, or all
\* of them when the window retains none
RetainedMax(d, s, e) ==
    LET kept == {i \in DOMAIN d : d[i].t - d[1].t >= s /\ (e.inf \/ d[i].t - d[1].t <= e.v)}
        rows == IF kept = {} THEN DOMAIN d ELSE kept
    IN  MaxSet({d[i].mean_rate : i \in rows})

RunsWithValues == {i \in DOMAIN seen : seen[i] # <<>>}

FilesSeen == SumSeq([i \in DOMAIN seen |-> Len(seen[i])])

-----------------------------------------------------------------------------
(* The inference as a state machine *)

AggIdle ==
    /\ agg = "none" /\ apc = "idle" /\ set_i = 0 /\ repeat = 0 /\ run_index = 0
    /\ dfs = <<>> /\ on_disk = {} /\ key_i = 0 /\ written = {}
    /\ agg_outcome = "none" /\ agg_logged = {}

HistIdle ==
    /\ hv = "none" /\ h_start = 0 /\ h_end = Inf
    /\ hist_files = <<>> /\ order = <<>> /\ opc = "idle" /\ next_k = 0
    /\ wpc = <<>> /\ row_i = <<>> /\ hist = <<>> /\ results = <<>>
    /\ run_hist = <<>> /\ merged = {} /\ merged_hosts = {} /\ hist_dfs = <<>>
    /\ hist_outcome = "none"

RunIdle ==
    /\ rpc = "idle" /\ set_k = 0 /\ cur = <<>> /\ limiters = <<>> /\ run_i = 0
    /\ rate_log = <<>> /\ deployed = {} /\ acquired = FALSE /\ run_outcome = "none"

HdrIdle == dstat_headers = <<>> /\ dstat_columns = <<>> /\ dstat_outcome = "idle"

CassIdle ==
    /\ cass = "none" /\ c_hosts = <<>> /\ c_seeds = <<>> /\ c_not_seeds = <<>>
    /\ container = <<>> /\ remote_conf = <<>> /\ remote_data = <<>>
    /\ cpc = "idle" /\ start_k = 0 /\ clock = 0 /\ started_at = <<>>
    /\ last_call = <<>> /\ c_outcome = "none"

RefIdle ==
    /\ ref_repeat = 0 /\ ref_runs = <<>> /\ ref_pc = "idle" /\ ref_visited = {}
    /\ ref_set_values = <<>> /\ ref_result = 0 /\ tidy_runs = {}

YamlIdle ==
    /\ template = <<>> /\ update_spec = <<>> /\ output = <<>> /\ yaml_outcome = "idle"

RampIdle ==
    /\ rp_rows = <<>> /\ rp_id = 0 /\ rp_run = 0 /\ rampup_done = <<>>
    /\ rp_pc = "idle" /\ rp_log = <<>> /\ rp_outcome = "none"

CycIdle ==
    /\ cy_campaign = "none" /\ cy_ops = 0 /\ cy_clients = 0 /\ cy_ratio = <<>>
    /\ cy_cmds = <<>> /\ cy_pc = "idle"

InferIdle ==
    /\ variant = "none" /\ ref_present = FALSE /\ ref_dir_exists = FALSE
    /\ rate = 1 /\ start_time = 0 /\ end_time = Inf
    /\ ipc = "idle" /\ df = <<>> /\ fdf = <<>> /\ run_value = 0
    /\ run_values = <<>> /\ set_values = <<>> /\ seen = <<>>
    /\ result = 0 /\ outcome = "none" /\ logged = {}

InitInfer ==
    /\ variant \in {"experiment", "xp1_baseline"}
    /\ ref_present \in BOOLEAN
    /\ ref_dir_exists \in BOOLEAN
    /\ rate \in Rates
    /\ \E w \in Windows : start_time = w[1] /\ end_time = w[2]
    \* infer_throughput passes start_time only: rate and end_time keep their defaults
    /\ variant = "xp1_baseline" => rate = 1 /\ end_time = Inf
    /\ ipc = "resolve"
    /\ df = <<>> /\ fdf = <<>> /\ run_value = 0
    /\ run_values = <<>> /\ set_values = <<>> /\ seen = <<>>
    /\ result = 0 /\ outcome = "none" /\ logged = {}
    /\ AggIdle
    /\ HistIdle
    /\ RunIdle
    /\ HdrIdle
    /\ CassIdle
    /\ RefIdle
    /\ YamlIdle
    /\ RampIdle
    /\ CycIdle

\* infer_throughput (xp1_baseline/run.py): guards the lookup and the directory
InferThroughput ==
    /\ ipc = "resolve" /\ variant = "xp1_baseline"
    /\ IF ~ref_present
         THEN /\ logged' = logged \cup {"error: reference does not exist"}
              /\ result' = 0 /\ outcome' = "value" /\ ipc' = "done"
         ELSE IF ~ref_dir_exists
         THEN /\ logged' = logged \cup {"warning: reference has not been executed"}
              /\ result' = 0 /\ outcome' = "value" /\ ipc' = "done"
         ELSE /\ ipc' = "runs"
              /\ UNCHANGED <<logged, result, outcome>>
    /\ UNCHANGED <<aggVars, histVars, runVars, hdrVars, cassVars, refVars, yamlVars, rampVars, cycVars>>
    /\ UNCHANGED <<variant, ref_present, ref_dir_exists, rate, start_time, end_time,
                   df, fdf, run_value, run_values, set_values, seen>>

\* Infer.infer_from_expr (experiment/util/infer.py): csv_input.view(rows=_id) is
\* DataFrame.loc[_id, :], which raises KeyError for an absent label; the
\* directory is not tested before it is globbed
InferFromExpr ==
    /\ ipc = "resolve" /\ variant = "experiment"
    /\ IF ~ref_present
         THEN /\ outcome' = "KeyError" /\ ipc' = "done"
         ELSE /\ ipc' = "runs" /\ UNCHANGED outcome
    /\ UNCHANGED <<aggVars, histVars, runVars, hdrVars, cassVars, refVars, yamlVars, rampVars, cycVars>>
    /\ UNCHANGED <<variant, ref_present, ref_dir_exists, rate, start_time, end_time,
                   df, fdf, run_value, run_values, set_values, seen, result, logged>>

\* for run_path in self.basepath.glob(self.run_path_pattern): one more run directory
NextRun ==
    /\ ipc = "runs"
    /\ ref_dir_exists
    /\ Len(seen) < MaxRuns
    /\ run_values' = <<>>
    /\ seen' = Append(seen, <<>>)
    /\ ipc' = "files"
    /\ UNCHANGED <<aggVars, histVars, runVars, hdrVars, cassVars, refVars, yamlVars, rampVars, cycVars>>
    /\ UNCHANGED <<variant, ref_present, ref_dir_exists, rate, start_time, end_time,
                   df, fdf, run_value, set_values, result, outcome, logged>>

\* for csv_file in run_path.glob(self.csv_file_pattern): read, filter, fall back, reduce
ProcessFile ==
    /\ ipc = "files"
    /\ FilesSeen < MaxFiles
    /\ \E d \in CsvFiles :
         LET f == filter_dataframe(d, start_time, end_time)
             v == file_value(d, start_time, end_time)
         IN  /\ logged' = IF f = <<>> THEN logged \cup {"warning: no significant values"}
                                      ELSE logged
             /\ run_value' = v
             /\ run_values' = Append(run_values, v)
             /\ seen' = [seen EXCEPT ![Len(seen)] =
                            Append(@, RetainedMax(d, start_time, end_time))]
    /\ UNCHANGED <<aggVars, histVars, runVars, hdrVars, cassVars, refVars, yamlVars, rampVars, cycVars>>
    /\ UNCHANGED <<variant, ref_present, ref_dir_exists, rate, start_time, end_time, ipc,
                   df, fdf, set_values, result, outcome>>

\* the end of the inner loop: the run's values are aggregated, or the run is skipped
EndRun ==
    /\ ipc = "files"
    /\ IF run_values = <<>>
         THEN /\ logged' = logged \cup {"warning: no value infered"}
              /\ UNCHANGED set_values
         ELSE /\ set_values' = Append(set_values, aggregate_run_values(run_values))
              /\ UNCHANGED logged
    /\ ipc' = "runs"
    /\ UNCHANGED <<aggVars, histVars, runVars, hdrVars, cassVars, refVars, yamlVars, rampVars, cycVars>>
    /\ UNCHANGED <<variant, ref_present, ref_dir_exists, rate, start_time, end_time,
                   df, fdf, run_value, run_values, seen, result, outcome>>

\* the end of the outer loop: raise on an empty set, else aggregate over the runs
EndSet ==
    /\ ipc = "runs"
    /\ IF set_values = <<>>
         THEN /\ outcome' = EmptySetError(variant)
              /\ UNCHANGED result
         ELSE /\ result' = aggregate_set_values(set_values, rate)
              /\ outcome' = "value"
    /\ ipc' = "done"
    /\ UNCHANGED <<aggVars, histVars, runVars, hdrVars, cassVars, refVars, yamlVars, rampVars, cycVars>>
    /\ UNCHANGED <<variant, ref_present, ref_dir_exists, rate, start_time, end_time,
                   df, fdf, run_value, run_values, set_values, seen, logged>>

NextInfer ==
    \/ InferThroughput
    \/ InferFromExpr
    \/ NextRun
    \/ ProcessFile
    \/ EndRun
    \/ EndSet

SpecInfer == InitInfer /\ [][NextInfer]_vars

-----------------------------------------------------------------------------
(* The body of the inner loop of infer() for one csv file, step by step *)

InitFile ==
    /\ variant = "experiment" /\ ref_present = TRUE /\ ref_dir_exists = TRUE
    /\ rate = 1
    /\ \E w \in Windows : start_time = w[1] /\ end_time = w[2]
    /\ ipc = "file_read"
    /\ df \in CsvFiles
    /\ fdf = <<>> /\ run_value = 0
    /\ run_values = <<>> /\ set_values = <<>> /\ seen = <<>>
    /\ result = 0 /\ outcome = "none" /\ logged = {}
    /\ AggIdle
    /\ HistIdle
    /\ RunIdle
    /\ HdrIdle
    /\ CassIdle
    /\ RefIdle
    /\ YamlIdle
    /\ RampIdle
    /\ CycIdle

\* _df = self.filter_dataframe(df): adds the time column to df and selects the window
FilterDataframe ==
    /\ ipc = "file_read"
    /\ df' = with_time(df)
    /\ fdf' = filter_dataframe(df, start_time, end_time)
    /\ ipc' = "file_filtered"
    /\ UNCHANGED <<aggVars, histVars, runVars, hdrVars, cassVars, refVars, yamlVars, rampVars, cycVars>>
    /\ UNCHANGED <<variant, ref_present, ref_dir_exists, rate, start_time, end_time,
                   run_value, run_values, set_values, seen, result, outcome, logged>>

\* if _df.empty: warn and fall back to the full dataframe
FallBack ==
    /\ ipc = "file_filtered"
    /\ fdf = <<>>
    /\ logged' = logged \cup {"warning: no significant values"}
    /\ fdf' = fallback(df, fdf)
    /\ ipc' = "file_reduce"
    /\ UNCHANGED <<aggVars, histVars, runVars, hdrVars, cassVars, refVars, yamlVars, rampVars, cycVars>>
    /\ UNCHANGED <<variant, ref_present, ref_dir_exists, rate, start_time, end_time,
                   df, run_value, run_values, set_values, seen, result, outcome>>

KeepFiltered ==
    /\ ipc = "file_filtered"
    /\ fdf # <<>>
    /\ ipc' = "file_reduce"
    /\ UNCHANGED <<aggVars, histVars, runVars, hdrVars, cassVars, refVars, yamlVars, rampVars, cycVars>>
    /\ UNCHANGED <<variant, ref_present, ref_dir_exists, rate, start_time, end_time,
                   df, fdf, run_value, run_values, set_values, seen, result, outcome, logged>>

\* run_value = self.reduce_dataframe(_df); run_values.append(run_value)
ReduceDataframe ==
    /\ ipc = "file_reduce"
    /\ run_value' = reduce_dataframe(fdf)
    /\ run_values' = Append(run_values, reduce_dataframe(fdf))
    /\ ipc' = "file_done"
    /\ UNCHANGED <<aggVars, histVars, runVars, hdrVars, cassVars, refVars, yamlVars, rampVars, cycVars>>
    /\ UNCHANGED <<variant, ref_present, ref_dir_exists, rate, start_time, end_time,
                   df, fdf, set_values, seen, result, outcome, logged>>

NextFile ==
    \/ FilterDataframe
    \/ FallBack
    \/ KeepFiltered
    \/ ReduceDataframe

SpecFile == InitFile /\ [][NextFile]_vars

-----------------------------------------------------------------------------
(* Claims on the inference *)

\* the per-run sums of the recorded tree, over the runs that hold a file
RunSums == {SumSeq(seen[i]) : i \in RunsWithValues}

\* C1: MeanRate inference returns rate * max over the run-* directories of the
\* sum over the run's result files of the max of mean_rate over the file's
\* retained rows.
C1_MaxOfRunSums ==
    (ipc = "done" /\ RunsWithValues # {}) =>
        (outcome = "value" /\ result = rate * MaxSet(RunSums))

\* run A with per-client maxima [10, 12], run B with [9, 9], rate 1: 22
C1_Witness ==
    /\ ipc = "done" /\ rate = 1
    /\ seen = <<(<<10, 12>>), (<<9, 9>>)>>
    /\ result = 22

\* the inference itself ran (the caller reached infer())
InferRan == ipc = "done" /\ ref_present /\ (variant = "xp1_baseline" => ref_dir_exists)

\* C2: a reference row absent from the full table, or whose output directory
\* does not exist, resolves to the rate 0 with a warning or an error logged;
\* no exception escapes the resolution.
C2_MissingReferenceIsZero ==
    (ipc = "done" /\ (~ref_present \/ ~ref_dir_exists)) =>
        (outcome = "value" /\ result = 0 /\ logged # {})

\* C5: inference fails with EmptySetException exactly when no run directory
\* yielded a value; a run directory without a matching file is left out of the
\* aggregation over the runs instead of counting as 0.
C5_EmptySetExactlyWhenNoValue ==
    InferRan =>
        /\ (outcome = "EmptySetException") <=> (RunsWithValues = {})
        /\ Len(set_values) = Cardinality(RunsWithValues)
        /\ (outcome = "value") <=> (RunsWithValues # {})

\* the same with the exception each copy of infer() raises: holds of both
EmptySetRaisedExactlyWhenNoValue ==
    InferRan =>
        /\ (outcome = EmptySetError(variant)) <=> (RunsWithValues = {})
        /\ Len(set_values) = Cardinality(RunsWithValues)
        /\ (outcome = "value") <=> (RunsWithValues # {})

\* the rows of the file read whose run-relative time lies in the window
RetainedRows ==
    {i \in DOMAIN df : /\ df[i].t - df[1].t >= start_time
                        /\ (end_time.inf \/ df[i].t - df[1].t <= end_time.v)}

RatesOf(rows) == {df[i].mean_rate : i \in rows}

-----------------------------------------------------------------------------
(* Result aggregation: tidy() of experiment/tidy.py, post() of xp1_baseline/post.py *)

\* the rows of input.csv, in order
Ids == <<"a", "b">>
Repeats == {1, 2}
Clients == {"c1", "c2"}
Hosts == {"h1"}

\* what a client's directory of a run holds: nothing (no directory), dstat and
\* data, data without dstat, or dstat and csv files without histograms.csv
ClientKinds == {"absent", "full", "no_dstat", "no_hist"}
RunContents == [clients : [Clients -> ClientKinds], hosts : [Hosts -> BOOLEAN]]

HasDstat(k) == k \in {"full", "no_hist"}
HasCsv(k) == k \in {"full", "no_dstat", "no_hist"}
HasHist(k) == k \in {"full", "no_dstat"}

\* the keys of dfs, in the order they are saved
TidyKeys == <<"dstat_clients", "dstat_hosts", "latency", "small_latency", "large_latency",
              "latency_ts", "small_latency_ts", "large_latency_ts", "stretch", "stretch_ts">>
PostKeys == <<"clients", "hosts", "timeseries", "client_latency", "latency">>
Keys(a) == IF a = "tidy" THEN TidyKeys ELSE PostKeys

\* range(1, _repeat + 1) in tidy, range(_repeat) in post
FirstRun(a) == IF a = "tidy" THEN 1 ELSE 0
LastRun(a, r) == IF a = "tidy" THEN r ELSE r - 1

PoolError == "ValueError: Number of processes must be at least 1"
ConcatError == "ValueError: No objects to concatenate"

\* multiprocessing.Pool(processes=n) raises for n < 1
Pool(n) == IF n < 1 THEN PoolError ELSE "pool"

\* pd.concat of a list of frames raises on an empty list
concat_lenient(frames) == "frame"

concat(frames) == IF frames = {} THEN ConcatError ELSE "frame"

Tag(id, run, host) == <<id, run, host>>

\* the fragments tidy() appends for one run directory, per key
TidyFragments(id, run, c) ==
    LET dstat_c == {Tag(id, run, h) : h \in {x \in Clients : HasDstat(c.clients[x])}}
        dstat_h == {Tag(id, run, h) : h \in {x \in Hosts : c.hosts[x]}}
        ts      == {Tag(id, run, h) : h \in {x \in Clients : HasCsv(c.clients[x])}}
        summ    == {Tag(id, run, "run")}
    IN  [k \in Range(TidyKeys) |->
            CASE k = "dstat_clients" -> dstat_c
              [] k = "dstat_hosts" -> dstat_h
              [] k \in {"latency_ts", "small_latency_ts", "large_latency_ts", "stretch_ts"} -> ts
              [] OTHER -> summ]

\* the fragments post() appends for one run directory, per key
PostFragments(id, run, c) ==
    [k \in Range(PostKeys) |->
        CASE k = "clients" -> {Tag(id, run, h) : h \in {x \in Clients : HasDstat(c.clients[x])}}
          [] k = "hosts" -> {Tag(id, run, h) : h \in {x \in Hosts : c.hosts[x]}}
          [] k = "timeseries" -> {Tag(id, run, h) : h \in {x \in Clients : HasCsv(c.clients[x])}}
          [] k = "client_latency" ->
                {Tag(id, run, h) : h \in {x \in Clients : c.clients[x] # "absent"}}
          [] OTHER -> {Tag(id, run, "run")}]

\* the hosts of a run directory post() warns about: a host directory without dstat file
NoDstat(c) == {h \in Clients : c.clients[h] = "no_dstat"}

\* len(latency_dfs): one frame per histograms.csv found under the run's clients
HistFiles(c) == Cardinality({h \in Clients : HasHist(c.clients[h])})

RunDirs == Cardinality(on_disk)

InitAgg ==
    /\ InferIdle
    /\ HistIdle
    /\ RunIdle
    /\ HdrIdle
    /\ CassIdle
    /\ RefIdle
    /\ YamlIdle
    /\ RampIdle
    /\ CycIdle
    /\ agg \in {"tidy", "post"}
    /\ apc = "sets" /\ set_i = 1 /\ repeat = 0 /\ run_index = 0
    /\ dfs = [k \in Range(Keys(agg)) |-> {}]
    /\ on_disk = {} /\ key_i = 0 /\ written = {}
    /\ agg_outcome = "none" /\ agg_logged = {}

\* the set directory of the row does not exist: warn and go to the next row
SkipSet ==
    /\ apc = "sets" /\ set_i <= Len(Ids)
    /\ agg_logged' = agg_logged \cup {"warning: set does not exist"}
    /\ set_i' = set_i + 1
    /\ UNCHANGED <<inferVars, histVars, runVars, hdrVars, cassVars, refVars, yamlVars, rampVars, cycVars>>
    /\ UNCHANGED <<agg, apc, repeat, run_index, dfs, on_disk, key_i, written, agg_outcome>>

\* the set directory exists: enter the loop over its runs
EnterSet ==
    /\ apc = "sets" /\ set_i <= Len(Ids)
    /\ \E r \in Repeats : repeat' = r
    /\ run_index' = FirstRun(agg)
    /\ apc' = "runs"
    /\ UNCHANGED <<inferVars, histVars, runVars, hdrVars, cassVars, refVars, yamlVars, rampVars, cycVars>>
    /\ UNCHANGED <<agg, set_i, dfs, on_disk, key_i, written, agg_outcome, agg_logged>>

\* the run directory does not exist: warn and go to the next run
SkipRun ==
    /\ apc = "runs" /\ run_index <= LastRun(agg, repeat)
    /\ agg_logged' = agg_logged \cup {"warning: run does not exist"}
    /\ run_index' = run_index + 1
    /\ UNCHANGED <<inferVars, histVars, runVars, hdrVars, cassVars, refVars, yamlVars, rampVars, cycVars>>
    /\ UNCHANGED <<agg, apc, set_i, repeat, dfs, on_disk, key_i, written, agg_outcome>>

\* tidy(): the body of the run loop; the four pools are sized by the number of
\* histograms.csv files found, and the run's summaries are appended after them
TidyRun ==
    /\ agg = "tidy"
    /\ apc = "runs" /\ run_index <= LastRun(agg, repeat)
    /\ RunDirs < MaxRunDirs
    /\ \E c \in RunContents :
         LET id == Ids[set_i]
             fr == TidyFragments(id, run_index, c)
         IN  /\ on_disk' = on_disk \cup {[id |-> id, run |-> run_index, content |-> c]}
             /\ IF Pool(HistFiles(c)) = PoolError
                  THEN /\ dfs' = [k \in DOMAIN dfs |->
                                    IF k \in {"dstat_clients", "dstat_hosts", "latency_ts",
                                              "small_latency_ts", "large_latency_ts", "stretch_ts"}
                                      THEN dfs[k] \cup fr[k] ELSE dfs[k]]
                       /\ agg_outcome' = PoolError
                       /\ apc' = "done"
                       /\ UNCHANGED run_index
                  ELSE /\ dfs' = [k \in DOMAIN dfs |-> dfs[k] \cup fr[k]]
                       /\ run_index' = run_index + 1
                       /\ UNCHANGED <<agg_outcome, apc>>
    /\ UNCHANGED <<inferVars, histVars, runVars, hdrVars, cassVars, refVars, yamlVars, rampVars, cycVars>>
    /\ UNCHANGED <<agg, set_i, repeat, key_i, written, agg_logged>>

\* post(): the body of the run loop
PostRun ==
    /\ agg = "post"
    /\ apc = "runs" /\ run_index <= LastRun(agg, repeat)
    /\ RunDirs < MaxRunDirs
    /\ \E c \in RunContents :
         LET id == Ids[set_i]
             fr == PostFragments(id, run_index, c)
         IN  /\ on_disk' = on_disk \cup {[id |-> id, run |-> run_index, content |-> c]}
             /\ dfs' = [k \in DOMAIN dfs |-> dfs[k] \cup fr[k]]
             /\ agg_logged' = IF NoDstat(c) = {} THEN agg_logged
                                ELSE agg_logged \cup {"warning: no dstat file"}
    /\ run_index' = run_index + 1
    /\ UNCHANGED <<inferVars, histVars, runVars, hdrVars, cassVars, refVars, yamlVars, rampVars, cycVars>>
    /\ UNCHANGED <<agg, apc, set_i, repeat, key_i, written, agg_outcome>>

\* the runs of the row are exhausted
EndRuns ==
    /\ apc = "runs" /\ run_index > LastRun(agg, repeat)
    /\ set_i' = set_i + 1
    /\ apc' = "sets"
    /\ UNCHANGED <<inferVars, histVars, runVars, hdrVars, cassVars, refVars, yamlVars, rampVars, cycVars>>
    /\ UNCHANGED <<agg, repeat, run_index, dfs, on_disk, key_i, written, agg_outcome,
                   agg_logged>>

\* the rows are exhausted: tidy() writes input.csv, then the categories are saved
EndSets ==
    /\ apc = "sets" /\ set_i > Len(Ids)
    /\ written' = IF agg = "tidy" THEN {"input"} ELSE {}
    /\ key_i' = 1
    /\ apc' = "save"
    /\ UNCHANGED <<inferVars, histVars, runVars, hdrVars, cassVars, refVars, yamlVars, rampVars, cycVars>>
    /\ UNCHANGED <<agg, set_i, repeat, run_index, dfs, on_disk, agg_outcome, agg_logged>>

\* pd.concat(dfs[key]).to_csv(...) for the next key
SaveCategory ==
    /\ apc = "save" /\ key_i <= Len(Keys(agg))
    /\ LET key == Keys(agg)[key_i]
       IN  IF concat(dfs[key]) = ConcatError
             THEN /\ agg_outcome' = ConcatError
                  /\ apc' = "done"
                  /\ UNCHANGED <<written, key_i>>
             ELSE /\ written' = written \cup {key}
                  /\ key_i' = key_i + 1
                  /\ UNCHANGED <<agg_outcome, apc>>
    /\ UNCHANGED <<inferVars, histVars, runVars, hdrVars, cassVars, refVars, yamlVars, rampVars, cycVars>>
    /\ UNCHANGED <<agg, set_i, repeat, run_index, dfs, on_disk, agg_logged>>

\* every category is saved
SaveDone ==
    /\ apc = "save" /\ key_i > Len(Keys(agg))
    /\ agg_outcome' = "ok"
    /\ apc' = "done"
    /\ UNCHANGED <<inferVars, histVars, runVars, hdrVars, cassVars, refVars, yamlVars, rampVars, cycVars>>
    /\ UNCHANGED <<agg, set_i, repeat, run_index, dfs, on_disk, key_i, written, agg_logged>>

NextAgg ==
    \/ SkipSet
    \/ EnterSet
    \/ SkipRun
    \/ TidyRun
    \/ PostRun
    \/ EndRuns
    \/ EndSets
    \/ SaveCategory
    \/ SaveDone

SpecAgg == InitAgg /\ [][NextAgg]_vars

-----------------------------------------------------------------------------
(* Claims on the aggregation *)

\* the fragments the artifacts found on disk stand for, per key
OnDiskTags(k) ==
    LET clientTags(keep(_)) ==
            UNION {{Tag(r.id, r.run, h) : h \in {x \in Clients : keep(r.content.clients[x])}} :
                   r \in on_disk}
    IN  CASE k \in {"dstat_clients", "clients"} -> clientTags(HasDstat)
          [] k \in {"dstat_hosts", "hosts"} ->
                UNION {{Tag(r.id, r.run, h) : h \in {x \in Hosts : r.content.hosts[x]}} :
                       r \in on_disk}
          [] k \in {"latency_ts", "small_latency_ts", "large_latency_ts", "stretch_ts",
                    "timeseries"} -> clientTags(HasCsv)
          [] k = "client_latency" -> clientTags(HasHist)
          [] OTHER -> {Tag(r.id, r.run, "run") : r \in
                          {x \in on_disk : \E h \in Clients : HasHist(x.content.clients[h])}}

\* C3: a missing set directory, run directory, dstat file or histograms.csv of
\* one run or host never aborts the aggregation, and every artifact found on
\* disk contributes its fragment.
C3_MissingArtifactNeverAborts ==
    /\ agg_outcome \in {"none", "ok", ConcatError}
    /\ \A k \in DOMAIN dfs : OnDiskTags(k) \subseteq dfs[k]

\* C4: a category without any fragment makes the save raise when it is
\* concatenated; no csv file is written for a category without fragment.
C4_EmptyCategoryRaises ==
    /\ \A k \in written \ {"input"} : dfs[k] # {}
    /\ (apc = "done" /\ agg_outcome # PoolError) =>
          ((agg_outcome = ConcatError) <=> (\E k \in DOMAIN dfs : dfs[k] = {}))
    /\ (apc = "done" /\ agg_outcome = "ok") => written \ {"input"} = DOMAIN dfs

\* tidy(): dstat_clients is written, then dstat_hosts has no fragment
C4_Witness ==
    /\ agg = "tidy" /\ apc = "done"
    /\ agg_outcome = ConcatError
    /\ on_disk # {}
    /\ "dstat_clients" \in written
    /\ dfs["dstat_hosts"] = {}
    /\ "dstat_hosts" \notin written

-----------------------------------------------------------------------------
(* The latency histograms: HdrHistogram as its bucket counts *)

\* the value buckets of a histogram; bucket b holds the recorded values equal to b
Buckets == {1, 2, 3}

\* HdrHistogram(lowest, highest, digits): no value recorded
ZeroHist == [b \in Buckets |-> 0]

RECURSIVE CountFrom(_, _)
CountFrom(h, B) ==
    IF B = {} THEN 0
    ELSE LET b == CHOOSE x \in B : TRUE IN h[b] + CountFrom(h, B \ {b})

get_total_count(h) == CountFrom(h, Buckets)

\* a merge that keeps the counts of the histogram merged last
add_last(h, o) == [b \in Buckets |-> IF o[b] > 0 THEN o[b] ELSE h[b]]

\* a merge that counts the observations of other twice
add_twice(h, o) == [b \in Buckets |-> h[b] + 2 * o[b]]

\* hist.add(other): the counts of other are added bucket by bucket
add(h, o) == [b \in Buckets |-> h[b] + o[b]]

\* a guard that lets every histogram through
has_count_always(h) == TRUE

\* the guard of every merge: get_total_count() > 0
has_count(h) == get_total_count(h) > 0

get_min_value(h) ==
    IF get_total_count(h) = 0 THEN 0
    ELSE CHOOSE b \in Buckets : h[b] > 0 /\ \A x \in Buckets : h[x] > 0 => b <= x

get_max_value(h) == MaxSet({0} \cup {b \in Buckets : h[b] > 0})

\* the lowest value at or below which p percent of the recorded values lie
get_value_at_percentile(h, p) ==
    LET total  == get_total_count(h)
        need   == MaxSet({1, (p * total + 99) \div 100})
        upto(b) == CountFrom(h, {x \in Buckets : x <= b})
    IN  IF total = 0 THEN 0
        ELSE CHOOSE b \in Buckets : upto(b) >= need /\ \A x \in Buckets : upto(x) >= need => b <= x

\* the row of statistics written for a histogram
summarize_histogram(h) ==
    [count |-> get_total_count(h), min |-> get_min_value(h), max |-> get_max_value(h),
     p50 |-> get_value_at_percentile(h, 50), p99 |-> get_value_at_percentile(h, 99)]

\* The compressed form of the counts: the counts up to the last non-zero
\* bucket, a run of n empty buckets written as the single number -n.
RECURSIVE ZeroRun(_, _, _)
ZeroRun(h, i, last) == IF i <= last /\ h[i] = 0 THEN 1 + ZeroRun(h, i + 1, last) ELSE 0

RECURSIVE EncodeFrom(_, _, _)
EncodeFrom(h, i, last) ==
    IF i > last THEN <<>>
    ELSE IF h[i] # 0 THEN <<h[i]>> \o EncodeFrom(h, i + 1, last)
    ELSE LET n == ZeroRun(h, i, last) IN <<0 - n>> \o EncodeFrom(h, i + n, last)

\* an encoding that stops one bucket before the last count
encode_short(h) == EncodeFrom(h, 1, MaxSet({0} \cup {b \in Buckets : h[b] # 0}) - 1)

encode(h) == EncodeFrom(h, 1, MaxSet({0} \cup {b \in Buckets : h[b] # 0}))

RECURSIVE Expand(_)
Expand(p) ==
    IF p = <<>> THEN <<>>
    ELSE IF Head(p) < 0 THEN [i \in 1..(0 - Head(p)) |-> 0] \o Expand(Tail(p))
    ELSE <<Head(p)>> \o Expand(Tail(p))

decode(p) == LET e == Expand(p) IN [b \in Buckets |-> IF b <= Len(e) THEN e[b] ELSE 0]

\* the interval histograms a client logs: an empty interval, one fast read,
\* two slow reads
HistKinds == {<<0, 0, 0>>, <<1, 0, 0>>, <<0, 0, 2>>}

START_TIME == 120

HistStamps == {START_TIME, START_TIME + 10}
IntervalLengths == {10}

\* the rows of a histograms.csv for one tag
Snapshots ==
    [StartTimestamp : HistStamps, Interval_Length : IntervalLengths,
     Interval_Compressed_Histogram : {encode(h) : h \in HistKinds}]

\* an encoding HdrHistogram.decode rejects: a literal zero count never appears
\* in a compressed histogram (empty buckets are written as runs)
Corrupt == <<0>>

DecodeError == "error: HdrHistogram.decode"

decodable(p) == \A i \in DOMAIN p : p[i] # 0

CorruptSnapshots ==
    [StartTimestamp : HistStamps, Interval_Length : IntervalLengths,
     Interval_Compressed_Histogram : {Corrupt}]

\* post(): the start_time and end_time arguments
HistWindows == {<<0, Inf>>, <<START_TIME, Fin(START_TIME + 15)>>, <<START_TIME + 5, Fin(START_TIME + 20)>>}

\* histogram_aggregator: hist_df["StartTimestamp"] > START_TIME
retained_tidy(s) == s.StartTimestamp > START_TIME

\* a window filter that looks at the start of the interval only
retained_post_start(s, st, en) ==
    /\ s.StartTimestamp >= st
    /\ (en.inf \/ s.StartTimestamp <= en.v)

\* post: StartTimestamp >= start_time and StartTimestamp + Interval_Length <= end_time
retained_post(s, st, en) ==
    /\ s.StartTimestamp >= st
    /\ (en.inf \/ s.StartTimestamp + s.Interval_Length <= en.v)

Retained(s) == IF hv = "tidy" THEN retained_tidy(s) ELSE retained_post(s, h_start, h_end)

\* the rows of the host's file that pass the time filter, in file order
filtered_df(c) == SelectSeq(hist_files[c], Retained)

\* pool.map returns once some worker has returned
AnyReturned == \E c \in Clients : wpc[c] = "done"

\* pool.map returns once every worker has returned its result
AllReturned == \A c \in Clients : wpc[c] = "done"

-----------------------------------------------------------------------------
(* The histogram merge of one run as a state machine: one histograms.csv per
   client host, at most MaxSnapshots rows in the run *)

\* a run whose files hold at most n rows in all, drawn from snaps
InitHistOf(snaps, n) ==
    /\ InferIdle
    /\ AggIdle
    /\ RunIdle
    /\ HdrIdle
    /\ CassIdle
    /\ RefIdle
    /\ YamlIdle
    /\ RampIdle
    /\ CycIdle
    /\ \/ hv = "tidy" /\ h_start = 0 /\ h_end = Inf /\ opc = "pool"
       \/ \E w \in HistWindows : hv = "post" /\ h_start = w[1] /\ h_end = w[2] /\ opc = "hosts"
    /\ \E k \in 0..n : \E m \in 0..(n - k) :
          \E a \in [1..k -> snaps], b \in [1..m -> snaps] :
             hist_files = [c \in Clients |-> IF c = "c1" THEN a ELSE b]
    /\ order \in {o \in [1..Cardinality(Clients) -> Clients] : Range(o) = Clients}
    /\ next_k = 1
    /\ wpc = [c \in Clients |-> "wait"]
    /\ row_i = [c \in Clients |-> 1]
    /\ hist = [c \in Clients |-> ZeroHist]
    /\ results = [c \in Clients |-> <<>>]
    /\ run_hist = ZeroHist
    /\ merged = {} /\ merged_hosts = {}
    /\ hist_dfs = [client_latency |-> {}, latency |-> {}]
    /\ hist_outcome = "none"

\* the files hold snapshots the clients wrote whole
InitHist == InitHistOf(Snapshots, MaxSnapshots)

\* some rows may hold an encoding that does not decode
InitCorrupt == InitHistOf(Snapshots \cup CorruptSnapshots, MaxCorruptRun)

\* tidy: the pool is created with one process per file and pool.map hands each
\* file to a worker
PoolMap ==
    /\ hv = "tidy" /\ opc = "pool"
    /\ Pool(Cardinality(Clients)) = "pool"
    /\ wpc' = [c \in Clients |-> "run"]
    /\ opc' = "map"
    /\ UNCHANGED <<hv, h_start, h_end, hist_files, order, next_k, row_i, hist, results,
                   run_hist, merged, merged_hosts, hist_dfs>>
    /\ UNCHANGED <<inferVars, aggVars, runVars, hist_outcome, hdrVars, cassVars, refVars, yamlVars, rampVars, cycVars>>

\* post: the loop over the client hosts takes the next host
HostStart ==
    /\ hv = "post" /\ opc = "hosts" /\ next_k <= Len(order)
    /\ wpc[order[next_k]] = "wait"
    /\ wpc' = [wpc EXCEPT ![order[next_k]] = "run"]
    /\ hist' = [hist EXCEPT ![order[next_k]] = ZeroHist]
    /\ UNCHANGED <<hv, h_start, h_end, hist_files, order, opc, next_k, row_i, results,
                   run_hist, merged, merged_hosts, hist_dfs>>
    /\ UNCHANGED <<inferVars, aggVars, runVars, hist_outcome, hdrVars, cassVars, refVars, yamlVars, rampVars, cycVars>>

\* one iteration of the loop over the retained rows: decode, merge if not empty.
\* A row that does not decode raises: in post the exception leaves post(), in
\* tidy it ends the worker's task.
DecodeRow(c) ==
    /\ wpc[c] = "run" /\ row_i[c] <= Len(filtered_df(c))
    /\ LET blob == filtered_df(c)[row_i[c]].Interval_Compressed_Histogram
       IN  IF ~decodable(blob)
             THEN /\ wpc' = [wpc EXCEPT ![c] = "raised"]
                  /\ IF hv = "tidy"
                       THEN UNCHANGED <<opc, hist_outcome>>
                       ELSE opc' = "done" /\ hist_outcome' = DecodeError
                  /\ UNCHANGED <<hist, merged, row_i>>
             ELSE /\ IF has_count(decode(blob))
                       THEN /\ hist' = [hist EXCEPT ![c] = add(hist[c], decode(blob))]
                            /\ merged' = merged \cup {<<c, row_i[c]>>}
                       ELSE UNCHANGED <<hist, merged>>
                  /\ row_i' = [row_i EXCEPT ![c] = row_i[c] + 1]
                  /\ UNCHANGED <<wpc, opc, hist_outcome>>
    /\ UNCHANGED <<hv, h_start, h_end, hist_files, order, next_k, results,
                   run_hist, merged_hosts, hist_dfs>>
    /\ UNCHANGED <<inferVars, aggVars, runVars, hdrVars, cassVars, refVars, yamlVars, rampVars, cycVars>>

\* tidy: every task has ended and one of them raised: pool.map raises that
\* exception in the orchestrating process, and it leaves tidy()
PoolRaise ==
    /\ hv = "tidy" /\ opc = "map"
    /\ \A c \in Clients : wpc[c] \in {"done", "raised"}
    /\ \E c \in Clients : wpc[c] = "raised"
    /\ opc' = "done"
    /\ hist_outcome' = DecodeError
    /\ UNCHANGED <<hv, h_start, h_end, hist_files, order, next_k, wpc, row_i, hist, results,
                   run_hist, merged, merged_hosts, hist_dfs>>
    /\ UNCHANGED <<inferVars, aggVars, runVars, hdrVars, cassVars, refVars, yamlVars, rampVars, cycVars>>

\* tidy: the worker returns hist.encode()
WorkerReturn(c) ==
    /\ hv = "tidy" /\ wpc[c] = "run" /\ row_i[c] > Len(filtered_df(c))
    /\ results' = [results EXCEPT ![c] = encode(hist[c])]
    /\ wpc' = [wpc EXCEPT ![c] = "done"]
    /\ UNCHANGED <<hv, h_start, h_end, hist_files, order, opc, next_k, row_i, hist,
                   run_hist, merged, merged_hosts, hist_dfs>>
    /\ UNCHANGED <<inferVars, aggVars, runVars, hist_outcome, hdrVars, cassVars, refVars, yamlVars, rampVars, cycVars>>

\* tidy: the loop over the list pool.map returned, in the order of the files
MergeResult ==
    /\ hv = "tidy" /\ opc = "map" /\ AllReturned /\ next_k <= Len(order)
    /\ LET c == order[next_k]
           decoded_hist == decode(results[c])
       IN  IF has_count(decoded_hist)
             THEN /\ run_hist' = add(run_hist, decoded_hist)
                  /\ merged_hosts' = merged_hosts \cup {c}
             ELSE UNCHANGED <<run_hist, merged_hosts>>
    /\ next_k' = next_k + 1
    /\ UNCHANGED <<hv, h_start, h_end, hist_files, order, opc, wpc, row_i, hist, results,
                   merged, hist_dfs>>
    /\ UNCHANGED <<inferVars, aggVars, runVars, hist_outcome, hdrVars, cassVars, refVars, yamlVars, rampVars, cycVars>>

\* post: the files of the host are exhausted; its row is appended and its
\* histogram merged into the histogram of the run if not empty
MergeHost ==
    /\ hv = "post" /\ opc = "hosts" /\ next_k <= Len(order)
    /\ LET c == order[next_k]
       IN  /\ wpc[c] = "run" /\ row_i[c] > Len(filtered_df(c))
           /\ hist_dfs' = [hist_dfs EXCEPT !.client_latency =
                               @ \cup {<<c, summarize_histogram(hist[c])>>}]
           /\ IF has_count(hist[c])
                THEN /\ run_hist' = add(run_hist, hist[c])
                     /\ merged_hosts' = merged_hosts \cup {c}
                ELSE UNCHANGED <<run_hist, merged_hosts>>
           /\ wpc' = [wpc EXCEPT ![c] = "done"]
    /\ next_k' = next_k + 1
    /\ UNCHANGED <<hv, h_start, h_end, hist_files, order, opc, row_i, hist, results, merged>>
    /\ UNCHANGED <<inferVars, aggVars, runVars, hist_outcome, hdrVars, cassVars, refVars, yamlVars, rampVars, cycVars>>

\* the summary row of the run is appended
Summarize ==
    /\ \/ hv = "tidy" /\ opc = "map"
       \/ hv = "post" /\ opc = "hosts"
    /\ next_k > Len(order)
    /\ hist_dfs' = [hist_dfs EXCEPT !.latency = @ \cup {summarize_histogram(run_hist)}]
    /\ opc' = "done"
    /\ UNCHANGED <<hv, h_start, h_end, hist_files, order, next_k, wpc, row_i, hist, results,
                   run_hist, merged, merged_hosts>>
    /\ UNCHANGED <<inferVars, aggVars, runVars, hist_outcome, hdrVars, cassVars, refVars, yamlVars, rampVars, cycVars>>

NextHist ==
    \/ PoolMap
    \/ HostStart
    \/ \E c \in Clients : DecodeRow(c)
    \/ \E c \in Clients : WorkerReturn(c)
    \/ MergeResult
    \/ MergeHost
    \/ Summarize

SpecHist == InitHist /\ [][NextHist]_vars

NextCorrupt ==
    \/ NextHist
    \/ PoolRaise

SpecCorrupt == InitCorrupt /\ [][NextCorrupt]_vars

-----------------------------------------------------------------------------
(* Claims on the histogram merge *)

\* what a row of a host's file brings: the counts of its snapshot if the row
\* passes the time filter, nothing otherwise
RowHist(c, i) ==
    LET s == hist_files[c][i]
    IN  IF Retained(s) THEN decode(s.Interval_Compressed_Histogram) ELSE ZeroHist

RECURSIVE RowsSum(_, _)
RowsSum(c, i) ==
    IF i = 0 THEN ZeroHist
    ELSE LET r == RowHist(c, i)
             t == RowsSum(c, i - 1)
         IN  [b \in Buckets |-> r[b] + t[b]]

RECURSIVE HostsSum(_)
HostsSum(cs) ==
    IF cs = {} THEN ZeroHist
    ELSE LET c == CHOOSE x \in cs : TRUE
             r == RowsSum(c, Len(hist_files[c]))
             t == HostsSum(cs \ {c})
         IN  [b \in Buckets |-> r[b] + t[b]]

\* the bucket counts of the retained snapshots of the hosts cs: a sum of
\* numbers, which knows no order
CanonicalMerge(cs) == HostsSum(cs)

\* every retained snapshot of the host is empty
AllZero(c) == RowsSum(c, Len(hist_files[c])) = ZeroHist

\* C8: only snapshots with a total count > 0 are merged; a host whose retained
\* snapshots are all empty ends with total_count = 0, is not added to the
\* histogram of the run, and the run's histogram and statistics are those of
\* the other hosts alone.
C8_OnlyNonEmptyMerged ==
    /\ \A p \in merged :
          \E b \in Buckets : decode(filtered_df(p[1])[p[2]].Interval_Compressed_Histogram)[b] > 0
    /\ \A c \in merged_hosts : \E b \in Buckets : hist[c][b] > 0
    /\ \A c \in Clients : AllZero(c) =>
          /\ c \notin merged_hosts
          /\ \A b \in Buckets : hist[c][b] = 0
          /\ opc = "done" =>
                LET others == CanonicalMerge(Clients \ {c})
                IN  /\ run_hist = others
                    /\ hist_dfs.latency = {summarize_histogram(others)}

\* a finished run with a host that has retained snapshots, all of them empty,
\* while the other host was merged
C8_Witness ==
    /\ opc = "done"
    /\ \E c \in Clients :
          /\ Len(filtered_df(c)) >= 1 /\ AllZero(c)
          /\ merged_hosts = Clients \ {c}

\* C9: the histogram of a host and the histogram of the run are the bucket-wise
\* sum of the set of non-empty retained snapshots, whatever the order of the
\* rows in a file and of the hosts in the run; the statistics follow the counts.
C9_MergeOrderIndependent ==
    /\ \A c \in Clients : wpc[c] = "done" => hist[c] = CanonicalMerge({c})
    /\ opc = "done" =>
          LET all == CanonicalMerge(Clients)
          IN  /\ run_hist = all
              /\ hist_dfs.latency = {summarize_histogram(all)}

\* a finished run whose hosts came in the order c2, c1 and whose three merged
\* snapshots are not all alike
C9_Witness ==
    /\ opc = "done" /\ order[1] = "c2"
    /\ Cardinality(merged) = 3 /\ merged_hosts = Clients
    /\ \E p, q \in merged :
          filtered_df(p[1])[p[2]].Interval_Compressed_Histogram
             # filtered_df(q[1])[q[2]].Interval_Compressed_Histogram

\* one process merging the rows of a file in file order
RECURSIVE MergeRows(_, _)
MergeRows(h, rows) ==
    IF rows = <<>> THEN h
    ELSE LET d == decode(Head(rows).Interval_Compressed_Histogram)
         IN  MergeRows(IF has_count(d) THEN add(h, d) ELSE h, Tail(rows))

\* one process merging the files from the k-th on, in the order of the files
RECURSIVE MergeGroups(_, _)
MergeGroups(h, k) ==
    IF k > Len(order) THEN h
    ELSE LET g == MergeRows(ZeroHist, filtered_df(order[k]))
         IN  MergeGroups(IF has_count(g) THEN add(h, g) ELSE h, k + 1)

\* C10: in tidy a step of a worker changes nothing of the other workers nor of
\* the run's histogram; the run's histogram stays empty until every worker has
\* returned; and, whatever the interleaving, the finished run's histogram is
\* the one a single process merging the files one after the other obtains.
C10_ParallelEqualsSequential ==
    /\ [](hv = "tidy" =>
            /\ (merged_hosts # {} \/ next_k > 1 \/ opc = "done") =>
                  \A c \in Clients : wpc[c] = "done"
            /\ (\E c \in Clients : wpc[c] # "done") => run_hist = ZeroHist
            /\ opc = "done" => run_hist = MergeGroups(ZeroHist, 1))
    /\ [][hv = "tidy" =>
            \A c \in Clients :
               (row_i'[c] # row_i[c] \/ results'[c] # results[c] \/ hist'[c] # hist[c]) =>
                  /\ \A o \in Clients \ {c} :
                        /\ hist'[o] = hist[o] /\ row_i'[o] = row_i[o]
                        /\ results'[o] = results[o] /\ wpc'[o] = wpc[o]
                  /\ run_hist' = run_hist /\ merged_hosts' = merged_hosts]_vars

\* a finished tidy run in which both workers merged a snapshot and both
\* results were merged by the orchestrating process
C10_Witness ==
    /\ hv = "tidy" /\ opc = "done"
    /\ merged_hosts = Clients
    /\ \A c \in Clients : \E p \in merged : p[1] = c

\* C11: a row whose encoding does not decode is fatal for its file only: no
\* exception leaves the aggregation, and the finished run has its summary row.
C11_DecodeErrorIsolated ==
    /\ hist_outcome = "none"
    /\ opc = "done" => hist_dfs.latency # {}

RECURSIVE SumSnapshots(_)
SumSnapshots(rows) ==
    IF rows = <<>> THEN ZeroHist
    ELSE LET d == decode(Head(rows).Interval_Compressed_Histogram)
             t == SumSnapshots(Tail(rows))
         IN  [b \in Buckets |-> d[b] + t[b]]

\* the merged histograms hold the snapshots selected by K and no other
MergedAreThose(K(_)) ==
    /\ \A c \in Clients :
          wpc[c] = "done" => hist[c] = SumSnapshots(SelectSeq(hist_files[c], K))
    /\ opc = "done" =>
          run_hist = SumSnapshots(SelectSeq(hist_files[order[1]] \o hist_files[order[2]], K))

\* the predicate of the code: the whole interval of the snapshot lies in the window
IntervalInWindow(s) ==
    IF hv = "tidy" THEN s.StartTimestamp > START_TIME
    ELSE /\ s.StartTimestamp >= h_start
         /\ (h_end.inf \/ s.StartTimestamp + s.Interval_Length <= h_end.v)

\* the predicate as stated: the start of the snapshot lies in the window
StartInWindow(s) ==
    IF hv = "tidy" THEN s.StartTimestamp > START_TIME
    ELSE /\ s.StartTimestamp >= h_start
         /\ (h_end.inf \/ s.StartTimestamp <= h_end.v)

\* C12 (amended): the merged counts are those of the snapshots with
\* StartTimestamp > START_TIME in histogram_aggregator, and of the snapshots
\* with StartTimestamp >= start_time and StartTimestamp + Interval_Length <=
\* end_time in post; no other snapshot contributes to a merged count.
C12_IntervalWithinWindow == MergedAreThose(IntervalInWindow)

\* C12 (as stated): in post a snapshot is retained exactly when its
\* StartTimestamp lies within [start_time, end_time].
C12_StartWithinWindow == MergedAreThose(StartInWindow)

\* a finished post run that merged a snapshot and left out a non-empty one
\* which starts inside the window and ends after it
C12_Witness ==
    /\ hv = "post" /\ opc = "done" /\ merged # {} /\ ~h_end.inf
    /\ \E c \in Clients : \E i \in 1..Len(hist_files[c]) :
          LET s == hist_files[c][i]
          IN  /\ s.StartTimestamp >= h_start /\ s.StartTimestamp <= h_end.v
              /\ s.StartTimestamp + s.Interval_Length > h_end.v
              /\ s.Interval_Compressed_Histogram # <<>>

-----------------------------------------------------------------------------
(* The rate expressions of an input row (experiment/run.py get_rate_limiter).
   A string is the sequence of its pieces; a rate is counted in halves of an
   operation per second, so that 42.5 is the number 85. *)

\* pd.isna(expr): the cell of the input file is empty
NA == <<"nan">>

RateExprs ==
    { NA,
      <<"none">>,
      <<"none", "such">>,
      <<"infer", "=", "MeanRate", ",", "a">>,
      <<"infer", "=", "MeanRate", ",", "zz">>,
      <<"infer", "=", "Median", ",", "a", ",", "1">>,
      <<"infer", "=", "Median", ",", "zz">>,
      <<"linear", "=", "100", ",", "50">>,
      <<"fixed", "=", "42.5">>,
      <<"fixed", "=", "abc">>,
      <<"rate", "=", "100">>,
      <<"100">> }

\* the ids of the rows of csv_input
InputIds == {<<"a">>}

\* Infer.METHODS
METHODS == {<<"MeanRate">>}

\* what MeanRateInfer.infer() gives on the directory of an existing row
InferOutcomes ==
    {[raise |-> "EmptySetException", value |-> 0], [raise |-> "none", value |-> 2400]}

startswith(e, prefix) == Len(e) >= Len(prefix) /\ SubSeq(e, 1, Len(prefix)) = prefix

RECURSIVE split(_, _)
split(e, sep) ==
    IF \A i \in DOMAIN e : e[i] # sep THEN <<e>>
    ELSE LET i == CHOOSE j \in DOMAIN e : e[j] = sep /\ \A k \in 1..(j - 1) : e[k] # sep
         IN  <<SubSeq(e, 1, i - 1)>> \o split(SubSeq(e, i + 1, Len(e)), sep)

Raised(ex) ==
    [raise |-> ex, value |-> 0, type |-> "none", start_rate |-> 0, coeff_rate |-> 0,
     fixed_rate |-> 0, expr_args |-> <<>>]

Returned(v) == [Raised("none") EXCEPT !.value = v]

\* a conversion that drops the fractional part
float_trunc(t) ==
    IF Len(t) # 1 THEN Raised("ValueError")
    ELSE CASE t[1] = "100" -> Returned(200)
           [] t[1] = "50" -> Returned(100)
           [] t[1] = "42.5" -> Returned(84)
           [] OTHER -> Raised("ValueError")

\* float(s): the number a decimal literal denotes, ValueError for any other string
float(t) ==
    IF Len(t) # 1 THEN Raised("ValueError")
    ELSE CASE t[1] = "100" -> Returned(200)
           [] t[1] = "50" -> Returned(100)
           [] t[1] = "42.5" -> Returned(85)
           [] OTHER -> Raised("ValueError")

\* a parser that takes an unknown expression for no limit
get_rate_limiter_lenient(expr) == [Raised("none") EXCEPT !.type = "none"]

\* get_rate_limiter: the kind of limiter and what its lambda closes over
get_rate_limiter(expr) ==
    IF expr = NA \/ startswith(expr, <<"none">>)
      THEN [Raised("none") EXCEPT !.type = "none"]
    ELSE IF startswith(expr, <<"infer", "=">>)
      THEN [Raised("none") EXCEPT !.type = "infer", !.expr_args = split(expr, "=")[2]]
    ELSE IF startswith(expr, <<"linear", "=">>)
      THEN LET expr_args == split(split(expr, "=")[2], ",")
           IN  IF Len(expr_args) < 2 THEN Raised("IndexError")
               ELSE IF float(expr_args[1]).raise # "none" THEN float(expr_args[1])
               ELSE IF float(expr_args[2]).raise # "none" THEN float(expr_args[2])
               ELSE [Raised("none") EXCEPT !.type = "linear",
                                           !.start_rate = float(expr_args[1]).value,
                                           !.coeff_rate = float(expr_args[2]).value]
    ELSE IF startswith(expr, <<"fixed", "=">>)
      THEN LET fixed_rate == float(split(expr, "=")[2])
           IN  IF fixed_rate.raise # "none" THEN fixed_rate
               ELSE [Raised("none") EXCEPT !.type = "fixed", !.fixed_rate = fixed_rate.value]
    ELSE Raised("RateLimitFormatException")

\* a resolution that fetches the referenced row before it looks at the method
infer_from_expr_row_first(expr_args, found) ==
    LET params == split(expr_args, ",")
    IN  IF Len(params) < 2 THEN Raised("IndexError")
        ELSE IF params[2] \notin InputIds THEN Raised("KeyError")
        ELSE IF params[1] \notin METHODS THEN Raised("UndefinedInferenceMethodException")
        ELSE found

\* Infer.infer_from_expr: parse_expr, then the row of the reference, then infer()
infer_from_expr(expr_args, found) ==
    LET params == split(expr_args, ",")
    IN  IF params[1] \notin METHODS THEN Raised("UndefinedInferenceMethodException")
        ELSE IF Len(params) < 2 THEN Raised("IndexError")
        ELSE IF params[2] \notin InputIds THEN Raised("KeyError")
        ELSE found

\* a ramp counted from run 0
linear_from_zero(start_rate, coeff_rate, index) == start_rate + index * coeff_rate

\* lambda run_index: start_rate + (run_index - 1) * coeff_rate
linear(start_rate, coeff_rate, index) == start_rate + (index - 1) * coeff_rate

\* the call of a limiter's lambda
limit(l, index, found) ==
    CASE l.type = "none" -> Returned(0)
      [] l.type = "infer" -> infer_from_expr(l.expr_args, found)
      [] l.type = "linear" -> Returned(linear(l.start_rate, l.coeff_rate, index))
      [] l.type = "fixed" -> Returned(l.fixed_rate)

-----------------------------------------------------------------------------
(* The campaign loop as a state machine: the rows of the input are read one
   after the other (at most MaxSets of them, each with repeat <= MaxRepeat);
   a row is one that passes the ops/duration checks. *)

InputRows ==
    [rampup_rate_limit : RateExprs, main_rate_limit : RateExprs,
     warmup_rate_limit : RateExprs, repeat : 1..MaxRepeat]

InitRun ==
    /\ InferIdle
    /\ AggIdle
    /\ HistIdle
    /\ HdrIdle
    /\ CassIdle
    /\ RefIdle
    /\ YamlIdle
    /\ RampIdle
    /\ CycIdle
    /\ rpc = "acquire" /\ set_k = 0 /\ cur = <<>> /\ limiters = <<>> /\ run_i = 0
    /\ rate_log = <<>> /\ deployed = {} /\ acquired = FALSE /\ run_outcome = "none"

\* resources.acquire(with_docker="nodes")
Acquire ==
    /\ rpc = "acquire"
    /\ acquired' = TRUE
    /\ rpc' = "rows"
    /\ UNCHANGED <<set_k, cur, limiters, run_i, rate_log, deployed, run_outcome>>
    /\ UNCHANGED <<inferVars, aggVars, histVars, hdrVars, cassVars, refVars, yamlVars, rampVars, cycVars>>

\* the next row is read and its three rate expressions are parsed, in the
\* order rampup, main, warmup; the first exception leaves run()
ParseRow ==
    /\ rpc = "rows" /\ set_k < MaxSets
    /\ \E row \in InputRows :
          LET r == get_rate_limiter(row.rampup_rate_limit)
              m == get_rate_limiter(row.main_rate_limit)
              w == get_rate_limiter(row.warmup_rate_limit)
              failed == IF r.raise # "none" THEN r.raise
                        ELSE IF m.raise # "none" THEN m.raise
                        ELSE w.raise
          IN  /\ cur' = row
              /\ IF failed # "none"
                   THEN /\ run_outcome' = failed
                        /\ rpc' = "raised"
                        /\ limiters' = <<>>
                   ELSE /\ limiters' = [rampup |-> r, main |-> m, warmup |-> w]
                        /\ rpc' = "deploy"
                        /\ UNCHANGED run_outcome
    /\ set_k' = set_k + 1
    /\ rate_log' = <<>>
    /\ run_i' = 0
    /\ UNCHANGED <<deployed, acquired>>
    /\ UNCHANGED <<inferVars, aggVars, histVars, hdrVars, cassVars, refVars, yamlVars, rampVars, cycVars>>

\* NoSQLBench and Cassandra are deployed and started on the hosts of the row
Deploy ==
    /\ rpc = "deploy"
    /\ deployed' = deployed \cup {set_k}
    /\ rpc' = "rampup"
    /\ UNCHANGED <<set_k, cur, limiters, run_i, rate_log, acquired, run_outcome>>
    /\ UNCHANGED <<inferVars, aggVars, histVars, hdrVars, cassVars, refVars, yamlVars, rampVars, cycVars>>

\* the rampup rate is rampup_rate_limiter(1); then the rampup commands run
Rampup ==
    /\ rpc = "rampup"
    /\ \E found \in InferOutcomes :
          LET x == limit(limiters.rampup, 1, found)
          IN  IF x.raise # "none"
                THEN /\ run_outcome' = x.raise
                     /\ rpc' = "raised"
                     /\ UNCHANGED rate_log
                ELSE /\ rate_log' = <<[phase |-> "rampup", run_index |-> 1, rate |-> x.value]>>
                     /\ rpc' = "runs"
                     /\ UNCHANGED run_outcome
    /\ UNCHANGED <<set_k, cur, limiters, run_i, deployed, acquired>>
    /\ UNCHANGED <<inferVars, aggVars, histVars, hdrVars, cassVars, refVars, yamlVars, rampVars, cycVars>>

\* a loop that takes the main limiter for the warm-up run too
run_rate_limiter_main(index) == limiters.main

\* the limiter of the run of that index: warmup_rate_limiter for run 0,
\* main_rate_limiter for the others
run_rate_limiter(index) == IF index <= 0 THEN limiters.warmup ELSE limiters.main

\* one iteration of the loop over range(_repeat + 1): run 0 takes the warmup
\* limiter, the others the main limiter; then the commands of the run are launched
StartRun ==
    /\ rpc = "runs" /\ run_i <= cur.repeat
    /\ \E found \in InferOutcomes :
          LET x == limit(run_rate_limiter(run_i), run_i, found)
          IN  IF x.raise # "none"
                THEN /\ run_outcome' = x.raise
                     /\ rpc' = "raised"
                     /\ UNCHANGED <<rate_log, run_i>>
                ELSE /\ rate_log' = Append(rate_log,
                                       [phase |-> IF run_i <= 0 THEN "warmup" ELSE "main",
                                        run_index |-> run_i, rate |-> x.value])
                     /\ run_i' = run_i + 1
                     /\ UNCHANGED <<run_outcome, rpc>>
    /\ UNCHANGED <<set_k, cur, limiters, deployed, acquired>>
    /\ UNCHANGED <<inferVars, aggVars, histVars, hdrVars, cassVars, refVars, yamlVars, rampVars, cycVars>>

\* the runs of the row are over: nb.destroy(), cassandra.destroy(); the
\* locals of the iteration are dropped
EndRow ==
    /\ rpc = "runs" /\ run_i > cur.repeat
    /\ rpc' = "rows"
    /\ cur' = <<>> /\ limiters' = <<>> /\ rate_log' = <<>> /\ run_i' = 0
    /\ UNCHANGED <<set_k, deployed, acquired, run_outcome>>
    /\ UNCHANGED <<inferVars, aggVars, histVars, hdrVars, cassVars, refVars, yamlVars, rampVars, cycVars>>

\* the input is exhausted: resources.release()
Release ==
    /\ rpc = "rows" /\ set_k >= 1
    /\ acquired' = FALSE
    /\ run_outcome' = "ok"
    /\ rpc' = "done"
    /\ UNCHANGED <<set_k, cur, limiters, run_i, rate_log, deployed>>
    /\ UNCHANGED <<inferVars, aggVars, histVars, hdrVars, cassVars, refVars, yamlVars, rampVars, cycVars>>

NextRunLoop ==
    \/ Acquire
    \/ ParseRow
    \/ Deploy
    \/ Rampup
    \/ StartRun
    \/ EndRow
    \/ Release

SpecRun == InitRun /\ [][NextRunLoop]_vars

-----------------------------------------------------------------------------
(* Claims on the rate expressions *)

\* the expression is present and starts with none of none, infer=, linear=, fixed=
Unrecognized(e) ==
    /\ e # NA
    /\ e[1] # "none"
    /\ ~(Len(e) >= 2 /\ e[1] \in {"infer", "linear", "fixed"} /\ e[2] = "=")

\* the expressions of the current row, in the order they are parsed
CurExprs == <<cur.rampup_rate_limit, cur.main_rate_limit, cur.warmup_rate_limit>>

\* C13: get_rate_limiter raises RateLimitFormatException for every present
\* expression that starts with none of the recognized prefixes; a row holding
\* such an expression is never deployed nor run, and when no earlier expression
\* of the row fails for another reason that exception is the one leaving run().
C13_UnknownPrefixRaises ==
    /\ \A e \in RateExprs :
          Unrecognized(e) => get_rate_limiter(e).raise = "RateLimitFormatException"
    /\ (cur # <<>> /\ \E i \in 1..3 : Unrecognized(CurExprs[i])) =>
          /\ rpc = "raised"
          /\ set_k \notin deployed
          /\ rate_log = <<>>
          /\ run_outcome \in {"RateLimitFormatException", "ValueError", "IndexError"}
          /\ (\A i \in 1..3 : Unrecognized(CurExprs[i]) \/ CurExprs[i] # <<"fixed", "=", "abc">>)
                => run_outcome = "RateLimitFormatException"

\* the second row holds an unknown main expression after a rampup expression
\* that parses: the exception leaves run() with only the first row deployed
C13_Witness ==
    /\ rpc = "raised" /\ run_outcome = "RateLimitFormatException"
    /\ set_k = 2 /\ deployed = {1}
    /\ cur.rampup_rate_limit = <<"fixed", "=", "42.5">>
    /\ cur.main_rate_limit = <<"rate", "=", "100">>

\* the expression is infer=<method>,... with a method that is not registered
UnknownMethod(e) ==
    /\ Len(e) >= 3 /\ e[1] = "infer" /\ e[2] = "="
    /\ e[3] # "MeanRate"

\* C14: resolving an infer= expression whose method is not registered raises
\* UndefinedInferenceMethodException, whether or not the referenced row exists
\* and whatever infer() would give; in run() the phase that resolves it is
\* never launched and that exception leaves run().
C14_UnknownMethodRaises ==
    /\ \A e \in RateExprs : UnknownMethod(e) =>
          \A n \in 0..MaxRepeat : \A found \in InferOutcomes :
             limit(get_rate_limiter(e), n, found).raise = "UndefinedInferenceMethodException"
    /\ limiters # <<>> =>
          /\ UnknownMethod(cur.rampup_rate_limit) =>
                /\ rate_log = <<>>
                /\ rpc = "raised" => run_outcome = "UndefinedInferenceMethodException"
          /\ (~UnknownMethod(cur.rampup_rate_limit) /\ UnknownMethod(cur.warmup_rate_limit)) =>
                /\ Len(rate_log) <= 1
                /\ (rpc = "raised" /\ Len(rate_log) = 1) =>
                      run_outcome = "UndefinedInferenceMethodException"
          /\ UnknownMethod(cur.main_rate_limit) =>
                /\ \A k \in DOMAIN rate_log : rate_log[k].phase # "main"
                /\ (rpc = "raised" /\ Len(rate_log) = 2) =>
                      run_outcome = "UndefinedInferenceMethodException"

\* the main expression names an unknown method and a row that does not exist:
\* rampup and warm-up ran, run 1 raised
C14_Witness ==
    /\ rpc = "raised" /\ run_outcome = "UndefinedInferenceMethodException"
    /\ cur.main_rate_limit = <<"infer", "=", "Median", ",", "zz">>
    /\ Len(rate_log) = 2

\* C15: with linear=100,50 the rate of the run of index n is 100 + (n - 1) * 50
\* operations per second, for the warm-up run 0, for run 1 (100) and for
\* run 3 (200); rates are counted in halves.
C15_LinearRate ==
    /\ \A n \in 0..MaxRepeat :
          limit(get_rate_limiter(<<"linear", "=", "100", ",", "50">>), n,
                Returned(0)).value = 2 * (100 + (n - 1) * 50)
    /\ \A k \in DOMAIN rate_log :
          /\ (rate_log[k].phase = "main" /\ cur.main_rate_limit = <<"linear", "=", "100", ",", "50">>)
                => rate_log[k].rate = 2 * (100 + (rate_log[k].run_index - 1) * 50)
          /\ (rate_log[k].phase = "warmup" /\ cur.warmup_rate_limit = <<"linear", "=", "100", ",", "50">>)
                => rate_log[k].rate = 2 * 50
          /\ (rate_log[k].phase = "rampup" /\ cur.rampup_rate_limit = <<"linear", "=", "100", ",", "50">>)
                => rate_log[k].rate = 2 * 100

\* run 3 of a row with main expression linear=100,50 was launched at 200
\* operations per second, run 1 at 100
C15_Witness ==
    /\ cur # <<>> /\ cur.main_rate_limit = <<"linear", "=", "100", ",", "50">>
    /\ \E k \in DOMAIN rate_log :
          rate_log[k].phase = "main" /\ rate_log[k].run_index = 3 /\ rate_log[k].rate = 400
    /\ \E k \in DOMAIN rate_log :
          rate_log[k].phase = "main" /\ rate_log[k].run_index = 1 /\ rate_log[k].rate = 200

\* the expression of the phase of an entry of rate_log
ExprOf(entry) ==
    CASE entry.phase = "rampup" -> cur.rampup_rate_limit
      [] entry.phase = "warmup" -> cur.warmup_rate_limit
      [] entry.phase = "main" -> cur.main_rate_limit

MaxCols == 4

HeaderCells ==
    { << <<>>, <<"epoch">> >>,
      << <<"epoch">>, <<"epoch">> >>,
      << <<"cpu">>, <<"usr">> >>,
      << <<>>, <<"sys">> >>,
      << <<"mem">>, <<"used">> >>,
      << <<"total", " ", "cpu", " ", "usage">>, <<"usr">> >>,
      << <<"dsk", "/", "total">>, <<"sda", ":", "read">> >> }

Digits == <<"0", "1", "2", "3", "4", "5">>

\* pandas.read_csv(header=[0, 1]): the columns are the pairs of the two header
\* lines, a blank cell of the first line is named after its position
read_csv(headers) ==
    [k \in DOMAIN headers |->
        IF headers[k][1] = <<>>
        THEN << <<"Unnamed:", " ", Digits[k], "_level_0">>, headers[k][2] >>
        ELSE headers[k]]

\* Series.fillna(method="ffill"): a missing cell takes the last value that is
\* not missing above it; a missing cell with no value above it stays missing
RECURSIVE ffill(_, _)
ffill(cells, last) ==
    IF cells = <<>> THEN <<>>
    ELSE LET c == IF Head(cells) = NA THEN last ELSE Head(cells)
         IN  <<c>> \o ffill(Tail(cells), c)

fillna(cells) == ffill(cells, NA)

\* Series.str.replace("[ /]", "_", regex=True); a missing cell stays missing
replace_group(cell) ==
    IF cell = NA THEN NA
    ELSE [i \in DOMAIN cell |-> IF cell[i] \in {" ", "/"} THEN "_" ELSE cell[i]]

\* Series.str.replace(".+:", "", regex=True): the longest prefix of one piece
\* or more that ends with a colon is removed
replace_metric(cell) ==
    LET colons == {i \in DOMAIN cell : i >= 2 /\ cell[i] = ":"}
    IN  IF colons = {} THEN cell
        ELSE SubSeq(cell, (CHOOSE i \in colons : \A j \in colons : j <= i) + 1, Len(cell))

\* DataFrame.rename(columns={...}) on a MultiIndex maps the labels of every level
rename_usage(cell) ==
    CASE cell = <<"total", "_", "cpu", "_", "usage">> -> <<"cpu", "_", "usage">>
      [] cell = <<"memory", "_", "usage">> -> <<"mem", "_", "usage">>
      [] OTHER -> cell

\* "__".join(col); a missing cell is a float, which str.join refuses
join(col) ==
    IF col[1] = NA \/ col[2] = NA THEN <<"TypeError">>
    ELSE col[1] \o <<"__">> \o col[2]

rename_epoch(name) == IF name = <<"epoch", "__", "epoch">> THEN <<"epoch">> ELSE name

\* tidy.py 112-125: the column names of dstat_df, or the exception raised
normalize(headers) ==
    LET cols   == read_csv(headers)
        groups == [k \in DOMAIN cols |->
                      IF startswith(cols[k][1], <<"Unnamed:">>) THEN NA ELSE cols[k][1]]
        filled == fillna(groups)
        tuples == [k \in DOMAIN cols |->
                      << rename_usage(replace_group(filled[k])),
                         rename_usage(replace_metric(cols[k][2])) >>]
        joined == [k \in DOMAIN cols |-> join(tuples[k])]
    IN  IF \E k \in DOMAIN joined : joined[k] = <<"TypeError">>
        THEN [raise |-> "TypeError", columns |-> <<>>]
        ELSE [raise |-> "none", columns |-> [k \in DOMAIN joined |-> rename_epoch(joined[k])]]

\* a dstat file was found by the glob; dstat writes one epoch column
InitHeader ==
    /\ InferIdle
    /\ AggIdle
    /\ HistIdle
    /\ RunIdle
    /\ CassIdle
    /\ RefIdle
    /\ YamlIdle
    /\ RampIdle
    /\ CycIdle
    /\ \E n \in 1..MaxCols :
          \E h \in [1..n -> HeaderCells] :
             /\ Cardinality({k \in 1..n : h[k][2] = <<"epoch">>}) <= 1
             /\ dstat_headers = h
    /\ dstat_columns = <<>>
    /\ dstat_outcome = "read"

\* tidy.py 103-132: one dstat file is read, its header normalized, the columns
\* time, id, run and host_address added, the frame appended
DstatFile ==
    /\ dstat_outcome = "read"
    /\ LET r == normalize(dstat_headers)
       IN  IF r.raise # "none"
           THEN /\ dstat_outcome' = r.raise
                /\ UNCHANGED dstat_columns
           ELSE IF \A k \in DOMAIN r.columns : r.columns[k] # <<"epoch">>
           THEN /\ dstat_outcome' = "KeyError"
                /\ UNCHANGED dstat_columns
           ELSE /\ dstat_outcome' = "ok"
                /\ dstat_columns' = r.columns \o << <<"time">>, <<"id">>, <<"run">>,
                                                    <<"host_address">> >>
    /\ UNCHANGED dstat_headers
    /\ UNCHANGED <<inferVars, aggVars, histVars, runVars, cassVars, refVars, yamlVars, rampVars, cycVars>>

NextHeader == DstatFile

SpecHeader == InitHeader /\ [][NextHeader]_vars

\* the header of the example: groups "", cpu, "", mem over the metrics epoch,
\* usr, sys, used
ExampleHeader ==
    << << <<>>, <<"epoch">> >>, << <<"cpu">>, <<"usr">> >>,
       << <<>>, <<"sys">> >>, << <<"mem">>, <<"used">> >> >>

\* C17: once the file with groups "", cpu, "", mem over the metrics epoch, usr,
\* sys, used has been processed, the first four columns of its frame are
\* epoch, cpu__usr, cpu__sys, mem__used.
C17_ExampleHeaderNormalized ==
    (dstat_headers = ExampleHeader /\ dstat_outcome # "read") =>
        /\ dstat_outcome = "ok"
        /\ SubSeq(dstat_columns, 1, 4) =
              << <<"epoch">>, <<"cpu", "__", "usr">>, <<"cpu", "__", "sys">>,
                 <<"mem", "__", "used">> >>

\* what holds of the code: a blank group cell that follows a group is filled
\* and joined (epoch, cpu__usr, cpu__sys, mem__used when the first group cell
\* reads epoch), and a file whose first group cell is blank raises TypeError
C17_FilledFromPrevious ==
    /\ (dstat_outcome # "read" /\ dstat_headers[1][1] = <<>>) => dstat_outcome = "TypeError"
    /\ (dstat_outcome # "read"
        /\ dstat_headers = [ExampleHeader EXCEPT ![1] = << <<"epoch">>, <<"epoch">> >>]) =>
           /\ dstat_outcome = "ok"
           /\ SubSeq(dstat_columns, 1, 4) =
                 << <<"epoch">>, <<"cpu", "__", "usr">>, <<"cpu", "__", "sys">>,
                    <<"mem", "__", "used">> >>

(***************************************************************************)
(* The encoding of a worker's result (experiment/tidy.py 18-28, 198-205).  *)
(***************************************************************************)

\* the number of observations of the retained snapshots among the first i
\* rows of the file of c
RECURSIVE CountRows(_, _)
CountRows(c, i) ==
    IF i = 0 THEN 0
    ELSE LET s == hist_files[c][i]
             d == decode(s.Interval_Compressed_Histogram)
         IN  (IF Retained(s) THEN d[1] + d[2] + d[3] ELSE 0) + CountRows(c, i - 1)

RECURSIVE CountHosts(_)
CountHosts(cs) ==
    IF cs = {} THEN 0
    ELSE LET c == CHOOSE x \in cs : TRUE
         IN  CountRows(c, Len(hist_files[c])) + CountHosts(cs \ {c})

\* C23: the total count of the histogram of a finished run is the number of
\* observations of the retained snapshots of all its client hosts, and the
\* total count of the histogram merged for one host is the number of
\* observations of the retained snapshots of that host.
C23_CountConservation ==
    /\ \A c \in Clients :
          wpc[c] = "done" => get_total_count(hist[c]) = CountRows(c, Len(hist_files[c]))
    /\ opc = "done" => get_total_count(run_hist) = CountHosts(Clients)

\* a finished run of three observations over both hosts, one more observation
\* lying in a snapshot that was not retained
C23_Witness ==
    /\ opc = "done" /\ get_total_count(run_hist) = 3
    /\ \A c \in Clients : CountRows(c, Len(hist_files[c])) > 0
    /\ \E c \in Clients : \E i \in DOMAIN hist_files[c] :
          /\ ~Retained(hist_files[c][i])
          /\ hist_files[c][i].Interval_Compressed_Histogram = encode(<<1, 0, 0>>)

MaxHosts == 3

START_DELAY_IN_SECONDS == 120

HostNames == <<"n1", "n2", "n3", "n4", "n5">>

Machines == {HostNames[k] : k \in 1..MaxHosts}

\* resources.roles["cassandra"][:n]
cassandra_hosts(n) == [k \in 1..n |-> HostNames[k]]

Drivers == {"Cassandra", "CassandraDriver", "xp.Cassandra"}

\* what a running node keeps under remote_data_path, mounted on /var/lib/cassandra
DataEntries == {"data", "commitlog", "saved_caches", "hints"}

\* how long the call that starts a container may take, in seconds
ActionSeconds == {0, 10}

Call(name, reset) == [name |-> name, reset |-> reset]

\* __init__: no hosts, no seeds, no other nodes; the machines are bare
InitCass ==
    /\ InferIdle
    /\ AggIdle
    /\ HistIdle
    /\ RunIdle
    /\ HdrIdle
    /\ RefIdle
    /\ YamlIdle
    /\ RampIdle
    /\ CycIdle
    /\ cass \in Drivers
    /\ c_hosts = <<>> /\ c_seeds = <<>> /\ c_not_seeds = <<>>
    /\ container = [h \in Machines |-> "absent"]
    /\ remote_conf = [h \in Machines |-> FALSE]
    /\ remote_data = [h \in Machines |-> {}]
    /\ cpc = "ready" /\ start_k = 0 /\ clock = 0 /\ started_at = <<>>
    /\ last_call = Call("__init__", FALSE)
    /\ c_outcome = "none"

\* the row loop builds a new driver object for the next row (experiment/run.py
\* 174); the machines stay as the last row left them
New ==
    /\ cpc = "ready" /\ c_outcome = "none"
    /\ last_call.name = "destroy"
    /\ last_call' = Call("__init__", FALSE)
    /\ c_hosts' = <<>> /\ c_seeds' = <<>> /\ c_not_seeds' = <<>>
    /\ UNCHANGED <<cass, container, remote_conf, remote_data, cpc, start_k, clock,
                   started_at, c_outcome>>
    /\ UNCHANGED <<inferVars, aggVars, histVars, runVars, hdrVars, refVars, yamlVars, rampVars, cycVars>>

\* reset_data: remote_data_path is removed on every host
reset_data(hosts) == [h \in Machines |-> IF h \in Range(hosts) THEN {} ELSE remote_data[h]]

\* init(hosts, seed_count, reset) of Cassandra and CassandraDriver
Init(n, seed_count, reset) ==
    /\ cass \in {"Cassandra", "CassandraDriver"}
    /\ cpc = "ready" /\ c_outcome = "none"
    /\ last_call.name \in {"__init__", "destroy"}
    /\ last_call' = Call("init", reset)
    /\ IF n <= 0
         THEN /\ c_outcome' = "MissingHostsException"
              /\ UNCHANGED <<c_hosts, c_seeds, c_not_seeds, remote_data>>
         ELSE IF seed_count < 1 \/ seed_count > n
         THEN /\ c_outcome' = "InvalidSeedCountException"
              /\ UNCHANGED <<c_hosts, c_seeds, c_not_seeds, remote_data>>
         ELSE LET hosts     == cassandra_hosts(n)
                  seeds     == SubSeq(hosts, 1, seed_count)
                  not_seeds == SubSeq(hosts, seed_count + 1, n)
              IN  /\ c_hosts' = hosts
                  /\ c_seeds' = seeds
                  /\ c_not_seeds' = IF Len(not_seeds) > 0 THEN not_seeds ELSE c_not_seeds
                  /\ remote_data' = IF reset THEN reset_data(hosts) ELSE remote_data
                  /\ UNCHANGED c_outcome
    /\ UNCHANGED <<cass, container, remote_conf, cpc, start_k, clock, started_at>>
    /\ UNCHANGED <<inferVars, aggVars, histVars, runVars, hdrVars, refVars, yamlVars, rampVars, cycVars>>

\* xp.Cassandra has no init: the script sets the hosts, the first as the seed,
\* the others as not_seeds, on a new object (1_baseline.py 22-35)
SetHosts(n) ==
    /\ cass = "xp.Cassandra"
    /\ cpc = "ready" /\ c_outcome = "none" /\ c_hosts = <<>>
    /\ last_call' = Call("set_hosts", FALSE)
    /\ c_hosts' = cassandra_hosts(n)
    /\ c_seeds' = SubSeq(cassandra_hosts(n), 1, 1)
    /\ c_not_seeds' = SubSeq(cassandra_hosts(n), 2, n)
    /\ UNCHANGED <<cass, container, remote_conf, remote_data, cpc, start_k, clock,
                   started_at, c_outcome>>
    /\ UNCHANGED <<inferVars, aggVars, histVars, runVars, hdrVars, refVars, yamlVars, rampVars, cycVars>>

\* deploy(): the directories are created, the configuration copied and the
\* container created without running it
Deploy_cassandra ==
    /\ cpc = "ready" /\ c_outcome = "none"
    /\ last_call.name \in {"init", "set_hosts"}
    /\ last_call' = Call("deploy", FALSE)
    /\ remote_conf' = [h \in Machines |-> IF h \in Range(c_hosts) THEN TRUE ELSE remote_conf[h]]
    /\ container' = [h \in Machines |->
                        IF h \in Range(c_hosts) /\ container[h] = "absent"
                        THEN "present" ELSE container[h]]
    /\ UNCHANGED <<cass, c_hosts, c_seeds, c_not_seeds, remote_data, cpc, start_k, clock,
                   started_at, c_outcome>>
    /\ UNCHANGED <<inferVars, aggVars, histVars, runVars, hdrVars, refVars, yamlVars, rampVars, cycVars>>

\* an order that starts the other nodes before the seeds
start_order_seeds_last == c_not_seeds \o c_seeds

\* the hosts start() goes through: the seeds then the other nodes; the hosts
\* in the order of the list for CassandraDriver, whose seeds are the first
start_order == IF cass = "CassandraDriver" THEN c_hosts ELSE c_seeds \o c_not_seeds

\* start() is entered
Start ==
    /\ cpc = "ready" /\ c_outcome = "none"
    /\ last_call.name = "deploy"
    /\ last_call' = Call("start", FALSE)
    /\ cpc' = "start" /\ start_k' = 1 /\ clock' = 0 /\ started_at' = <<>>
    /\ UNCHANGED <<cass, c_hosts, c_seeds, c_not_seeds, container, remote_conf, remote_data,
                   c_outcome>>
    /\ UNCHANGED <<inferVars, aggVars, histVars, runVars, hdrVars, refVars, yamlVars, rampVars, cycVars>>

\* start_host, first half: docker_container(state="started") on the next
\* host; a container that was never created cannot be started
StartHost ==
    /\ cpc = "start" /\ start_k <= Len(start_order)
    /\ LET host == start_order[start_k]
       IN  IF container[host] = "absent"
           THEN /\ c_outcome' = "EnosFailedHostsError"
                /\ cpc' = "ready" /\ start_k' = 0 /\ clock' = 0 /\ started_at' = <<>>
                /\ UNCHANGED container
           ELSE /\ container' = [container EXCEPT ![host] = "started"]
                /\ started_at' = Append(started_at, <<host, clock>>)
                /\ \E d \in ActionSeconds : clock' = clock + d
                /\ cpc' = "sleep"
                /\ UNCHANGED <<start_k, c_outcome>>
    /\ UNCHANGED <<cass, c_hosts, c_seeds, c_not_seeds, remote_conf, remote_data, last_call>>
    /\ UNCHANGED <<inferVars, aggVars, histVars, runVars, hdrVars, refVars, yamlVars, rampVars, cycVars>>

\* start_host, second half: time.sleep(spawn_time)
Sleep ==
    /\ cpc = "sleep"
    /\ clock' = clock + START_DELAY_IN_SECONDS
    /\ start_k' = start_k + 1
    /\ cpc' = "start"
    /\ UNCHANGED <<cass, c_hosts, c_seeds, c_not_seeds, container, remote_conf, remote_data,
                   started_at, last_call, c_outcome>>
    /\ UNCHANGED <<inferVars, aggVars, histVars, runVars, hdrVars, refVars, yamlVars, rampVars, cycVars>>

\* start() returns
StartReturn ==
    /\ cpc = "start" /\ start_k > Len(start_order)
    /\ cpc' = "ready" /\ start_k' = 0 /\ clock' = 0 /\ started_at' = <<>>
    /\ UNCHANGED <<cass, c_hosts, c_seeds, c_not_seeds, container, remote_conf, remote_data,
                   last_call, c_outcome>>
    /\ UNCHANGED <<inferVars, aggVars, histVars, runVars, hdrVars, refVars, yamlVars, rampVars, cycVars>>

\* the rampup writes the dataset to the running cluster: every node keeps its
\* part under remote_data_path (xp.Cassandra mounts no data directory)
Load ==
    /\ cpc = "ready" /\ c_outcome = "none"
    /\ last_call.name = "start"
    /\ last_call' = Call("rampup", FALSE)
    /\ remote_data' = [h \in Machines |->
                          IF h \in Range(c_hosts) /\ cass # "xp.Cassandra"
                          THEN DataEntries ELSE remote_data[h]]
    /\ UNCHANGED <<cass, c_hosts, c_seeds, c_not_seeds, container, remote_conf, cpc, start_k,
                   clock, started_at, c_outcome>>
    /\ UNCHANGED <<inferVars, aggVars, histVars, runVars, hdrVars, refVars, yamlVars, rampVars, cycVars>>

\* a destroy() that removes remote_data_path itself
destroyed_all == DataEntries

\* the entries of remote_data_path destroy() removes
destroyed == {"saved_caches", "hints"}

\* destroy(): container, configuration files and caches are removed on the
\* hosts; xp.Cassandra.destroy does nothing
Destroy ==
    /\ cpc = "ready" /\ c_outcome = "none"
    /\ last_call.name \in {"start", "rampup"}
    /\ last_call' = Call("destroy", FALSE)
    /\ IF cass = "xp.Cassandra"
         THEN UNCHANGED <<container, remote_conf, remote_data>>
         ELSE /\ container' = [h \in Machines |->
                                  IF h \in Range(c_hosts) THEN "absent" ELSE container[h]]
              /\ remote_conf' = [h \in Machines |->
                                    IF h \in Range(c_hosts) THEN FALSE ELSE remote_conf[h]]
              /\ remote_data' = [h \in Machines |->
                                    IF h \in Range(c_hosts) THEN remote_data[h] \ destroyed
                                    ELSE remote_data[h]]
    /\ UNCHANGED <<cass, c_hosts, c_seeds, c_not_seeds, cpc, start_k, clock, started_at,
                   c_outcome>>
    /\ UNCHANGED <<inferVars, aggVars, histVars, runVars, hdrVars, refVars, yamlVars, rampVars, cycVars>>

NextCass ==
    \/ \E n \in 0..MaxHosts, seed_count \in 0..MaxHosts, reset \in BOOLEAN :
          Init(n, seed_count, reset)
    \/ \E n \in 1..MaxHosts : SetHosts(n)
    \/ New
    \/ Deploy_cassandra
    \/ Start
    \/ StartHost
    \/ Sleep
    \/ StartReturn
    \/ Load
    \/ Destroy

SpecCass == InitCass /\ [][NextCass]_vars

\* the nodes that are starting: their container was started less than the
\* spawn delay ago
Starting == {k \in DOMAIN started_at : clock < started_at[k][2] + START_DELAY_IN_SECONDS}

\* C19: inside start(), at most one node is starting at any moment; a
\* container is started at least the spawn delay of 120 s after the one before
\* it, and the loop reaches the next host only once that delay is over; every
\* seed has been started before any host that is not a seed.
C19_OneNodeAtATime ==
    cpc \in {"start", "sleep"} =>
       /\ Cardinality(Starting) <= 1
       /\ \A k \in 1..(Len(started_at) - 1) :
             started_at[k + 1][2] >= started_at[k][2] + START_DELAY_IN_SECONDS
       /\ (cpc = "start" /\ started_at # <<>>) =>
             clock >= started_at[Len(started_at)][2] + START_DELAY_IN_SECONDS
       /\ \A k \in DOMAIN started_at :
             started_at[k][1] \notin Range(c_seeds) =>
                \A s \in Range(c_seeds) : \E j \in 1..(k - 1) : started_at[j][1] = s

\* a cluster of two seeds and one other node is up: three containers were
\* started, the seeds first, and the last delay is over
C19_Witness ==
    /\ cpc = "start" /\ start_k > Len(start_order)
    /\ Len(c_seeds) = 2 /\ Len(started_at) = 3
    /\ started_at[1][1] = "n1" /\ started_at[2][1] = "n2" /\ started_at[3][1] = "n3"
    /\ clock >= 3 * START_DELAY_IN_SECONDS

\* the part of remote_data_path that holds the dataset
dataset(h) == remote_data[h] \cap {"data", "commitlog"}

\* C20: destroy() of Cassandra and of CassandraDriver leaves the hosts without
\* container and without configuration files and leaves the dataset of every
\* machine as it was; a dataset goes away only in an init with reset=True, on
\* the hosts of that init; an init with reset=False that follows a destroy
\* changes nothing under remote_data_path, one with reset=True empties it.
C20_DestroyKeepsData ==
    /\ [][(Destroy /\ cass # "xp.Cassandra") =>
             /\ \A h \in Range(c_hosts) : container'[h] = "absent" /\ ~remote_conf'[h]
             /\ \A h \in Machines : dataset(h)' = dataset(h)]_vars
    /\ [][\A h \in Machines :
             (dataset(h) # {} /\ dataset(h)' # dataset(h)) =>
                 /\ last_call' = Call("init", TRUE)
                 /\ h \in Range(c_hosts')]_vars
    /\ [][(last_call.name = "destroy" /\ last_call' = Call("init", FALSE)) =>
             remote_data' = remote_data]_vars
    /\ [][(last_call.name = "destroy" /\ last_call' = Call("init", TRUE)
           /\ c_outcome' = "none") =>
             \A h \in Range(c_hosts') : remote_data'[h] = {}]_vars

\* two hosts were loaded by a rampup and destroyed; init(reset=False) has
\* returned and the dataset is there, without the caches
C20_Witness ==
    /\ cass \in {"Cassandra", "CassandraDriver"}
    /\ last_call = Call("init", FALSE) /\ c_outcome = "none"
    /\ Len(c_hosts) = 2
    /\ \A h \in Range(c_hosts) :
          /\ container[h] = "absent" /\ ~remote_conf[h]
          /\ remote_data[h] = {"data", "commitlog"}

\* C28: after an init that returned, seeds followed by not_seeds is the list
\* of hosts, seeds being its first entries, and seed_count + not_seed_count =
\* host_count; after an init that raised, hosts and seeds are what they were.
C28_SeedsPartitionHosts ==
    /\ []((cass \in {"Cassandra", "CassandraDriver"} /\ c_hosts # <<>>) =>
             /\ c_seeds = SubSeq(c_hosts, 1, Len(c_seeds))
             /\ c_seeds \o c_not_seeds = c_hosts
             /\ Len(c_seeds) + Len(c_not_seeds) = Len(c_hosts))
    /\ [][c_outcome' \in {"MissingHostsException", "InvalidSeedCountException"} =>
             c_hosts' = c_hosts /\ c_seeds' = c_seeds]_vars

\* what holds of the code: seeds is a non-empty prefix of hosts, and an init
\* that raises leaves hosts, seeds and not_seeds as they were; not_seeds is the
\* rest of the hosts only when that rest is not empty
C28_SeedsPrefixOfHosts ==
    /\ []((cass \in {"Cassandra", "CassandraDriver"} /\ c_hosts # <<>>) =>
             /\ c_seeds # <<>>
             /\ c_seeds = SubSeq(c_hosts, 1, Len(c_seeds))
             /\ Len(c_seeds) < Len(c_hosts) => c_seeds \o c_not_seeds = c_hosts)
    /\ [][c_outcome' \in {"MissingHostsException", "InvalidSeedCountException"} =>
             c_hosts' = c_hosts /\ c_seeds' = c_seeds /\ c_not_seeds' = c_not_seeds]_vars

\* the rate an expression that is not an inference gives at a run index, in
\* halves; an inferred rate is whatever the inference returned
ExpectedRate(e, index, inferred) ==
    CASE e = <<"fixed", "=", "42.5">> -> 85
      [] e = <<"linear", "=", "100", ",", "50">> -> 2 * (100 + (index - 1) * 50)
      [] e = NA \/ e[1] = "none" -> 0
      [] OTHER -> inferred

\* C22: the runs of a row are launched with the indices 0, 1, 2, ... in that
\* order, never more than repeat + 1 of them, and the row ends only when
\* exactly repeat + 1 runs were launched; run 0 is launched at the rate of the
\* warm-up expression, a run of index n >= 1 at the rate of the main
\* expression at n; a run is logged only with its rate resolved.
C22_RunsInOrder ==
    /\ Len(rate_log) <= 1 => run_i = 0
    /\ Len(rate_log) >= 1 =>
          /\ rate_log[1].phase = "rampup"
          /\ run_i = Len(rate_log) - 1
          /\ run_i <= cur.repeat + 1
          /\ \A k \in 2..Len(rate_log) :
                /\ rate_log[k].run_index = k - 2
                /\ rate_log[k].phase = (IF k = 2 THEN "warmup" ELSE "main")
                /\ rate_log[k].rate =
                      ExpectedRate(IF k = 2 THEN cur.warmup_rate_limit ELSE cur.main_rate_limit,
                                   k - 2, rate_log[k].rate)
    /\ ENABLED EndRow => Len(rate_log) = cur.repeat + 2

\* a row with repeat = 3 is over: the warm-up ran at fixed=42.5, runs 1, 2
\* and 3 at linear=100,50
C22_Witness ==
    /\ rpc = "runs" /\ cur # <<>> /\ cur.repeat = 3 /\ run_i = 4
    /\ cur.warmup_rate_limit = <<"fixed", "=", "42.5">>
    /\ cur.main_rate_limit = <<"linear", "=", "100", ",", "50">>
    /\ Len(rate_log) = 5
    /\ rate_log[2].rate = 85 /\ rate_log[3].rate = 200 /\ rate_log[5].rate = 400

\* run() is one sequential process: it takes its next step as long as it has one
SpecRunLive == InitRun /\ [][NextRunLoop]_vars /\ WF_vars(NextRunLoop)

\* C25: once the resources are acquired they are eventually released, in
\* every execution of run(), those that end with an exception included.
C25_EventuallyReleased == [](acquired => <>(~acquired))

\* what holds of the code: the resources are released by the executions that
\* reach the end of the input, and an execution that ended with an exception
\* still holds them
C25_ReleasedUnlessRaised ==
    /\ [](acquired => <>(~acquired \/ rpc = "raised"))
    /\ [](rpc = "raised" => acquired /\ run_outcome \notin {"none", "ok"})

(***************************************************************************)
(* A reference row from its campaign to its readers: run() writes one      *)
(* directory run-<index> per run, the warm-up run 0 included               *)
(* (experiment/run.py 241-405); MeanRateInfer goes through the directories *)
(* that match run-* (experiment/util/infer.py 39-73); tidy goes through    *)
(* range(1, repeat + 1) (experiment/tidy.py 84-91).  Each run directory    *)
(* holds one read.result-success.csv, whose largest mean_rate is the entry *)
(* of ref_runs.                                                            *)
(***************************************************************************)

InitRef ==
    /\ InferIdle
    /\ AggIdle
    /\ HistIdle
    /\ RunIdle
    /\ HdrIdle
    /\ CassIdle
    /\ YamlIdle
    /\ RampIdle
    /\ CycIdle
    /\ ref_repeat \in 1..MaxRepeat
    /\ ref_runs = <<>> /\ ref_pc = "campaign" /\ ref_visited = {}
    /\ ref_set_values = <<>> /\ ref_result = 0 /\ tidy_runs = {}

\* one iteration of the loop over range(_repeat + 1): the run of index
\* Len(ref_runs) is executed and its results saved under run-<index>
RunDone ==
    /\ ref_pc = "campaign" /\ Len(ref_runs) <= ref_repeat
    /\ \E v \in MeanRates : ref_runs' = Append(ref_runs, v)
    /\ UNCHANGED <<ref_repeat, ref_pc, ref_visited, ref_set_values, ref_result, tidy_runs>>
    /\ UNCHANGED <<inferVars, aggVars, histVars, runVars, hdrVars, cassVars, yamlVars, rampVars, cycVars>>

\* the row is over; a later row infers its rate from this one
RowDone ==
    /\ ref_pc = "campaign" /\ Len(ref_runs) > ref_repeat
    /\ ref_pc' = "infer"
    /\ UNCHANGED <<ref_repeat, ref_runs, ref_visited, ref_set_values, ref_result, tidy_runs>>
    /\ UNCHANGED <<inferVars, aggVars, histVars, runVars, hdrVars, cassVars, yamlVars, rampVars, cycVars>>

\* the run indices whose directory matches run_path_pattern "run-*"
run_path_glob == {k - 1 : k \in DOMAIN ref_runs}

\* for run_path in self.basepath.glob("run-*"): one directory, in the order of
\* the file system; its file is reduced and the run value appended
InferRun ==
    /\ ref_pc = "infer"
    /\ \E i \in run_path_glob \ ref_visited :
          /\ ref_visited' = ref_visited \cup {i}
          /\ ref_set_values' = Append(ref_set_values, aggregate_run_values(<<ref_runs[i + 1]>>))
    /\ UNCHANGED <<ref_repeat, ref_runs, ref_pc, ref_result, tidy_runs>>
    /\ UNCHANGED <<inferVars, aggVars, histVars, runVars, hdrVars, cassVars, yamlVars, rampVars, cycVars>>

\* the directories are exhausted: rate * max of the run values (rate = 1.0)
InferEnd ==
    /\ ref_pc = "infer" /\ ref_visited = run_path_glob
    /\ ref_result' = aggregate_set_values(ref_set_values, 1)
    /\ ref_pc' = "tidy"
    /\ UNCHANGED <<ref_repeat, ref_runs, ref_visited, ref_set_values, tidy_runs>>
    /\ UNCHANGED <<inferVars, aggVars, histVars, runVars, hdrVars, cassVars, yamlVars, rampVars, cycVars>>

\* tidy: for run_index in range(1, _repeat + 1), the run directory exists
TidyRef ==
    /\ ref_pc = "tidy"
    /\ LET run_k == Cardinality(tidy_runs) + 1
       IN  IF run_k <= ref_repeat
           THEN /\ tidy_runs' = tidy_runs \cup {run_k}
                /\ UNCHANGED ref_pc
           ELSE /\ ref_pc' = "done"
                /\ UNCHANGED tidy_runs
    /\ UNCHANGED <<ref_repeat, ref_runs, ref_visited, ref_set_values, ref_result>>
    /\ UNCHANGED <<inferVars, aggVars, histVars, runVars, hdrVars, cassVars, yamlVars, rampVars, cycVars>>

NextRef ==
    \/ RunDone
    \/ RowDone
    \/ InferRun
    \/ InferEnd
    \/ TidyRef

SpecRef == InitRef /\ [][NextRef]_vars

\* the largest value of the measured runs, those of index 1 and more
MeasuredMax == MaxSet({ref_runs[k] : k \in 2..Len(ref_runs)})

\* C24: the rate inferred from a reference row is computed from its measured
\* runs only: it is the largest value of the runs of index 1 and more, whatever
\* the warm-up run 0 gave, and infer() visits no run 0; the tidy tables hold
\* the runs 1..repeat only.
C24_WarmupNeverInfluences ==
    /\ 0 \notin ref_visited
    /\ ref_pc \in {"tidy", "done"} => ref_result = MeasuredMax
    /\ tidy_runs \subseteq 1..ref_repeat
    /\ ref_pc = "done" => tidy_runs = 1..ref_repeat

\* what holds of the code: the tidy tables hold the runs 1..repeat only; the
\* inferred rate is the largest value of all the run directories, run-0 included
C24_TidySkipsWarmup ==
    /\ tidy_runs \subseteq 1..ref_repeat
    /\ ref_pc = "done" => tidy_runs = 1..ref_repeat
    /\ ref_pc \in {"tidy", "done"} =>
          /\ ref_visited = 0..ref_repeat
          /\ ref_result = MaxSet({ref_runs[k] : k \in DOMAIN ref_runs})

(***************************************************************************)
(* build_yaml / update_dict_from_spec (drivers/util.py 7-69; util/yaml.py  *)
(* 7-12 is the same function).  A YAML tree is a node: a scalar, a mapping *)
(* from keys to nodes, or a list, whose indices are written "0", "1".      *)
(***************************************************************************)

MaxUpdates == 2

DictKeys == {"a", "b"}

ListIndices == {"0"}

\* the keys in the order the loop of update_dict_from_spec meets them
KeyOrder == <<"0", "a", "b">>

Leaf(v) == [kind |-> "leaf", val |-> v, items |-> <<>>]

Dict(f) == [kind |-> "dict", val |-> "", items |-> f]

List(f) == [kind |-> "list", val |-> "", items |-> f]

Containers(children) ==
    {Dict(f) : f \in UNION {[D -> children] : D \in SUBSET DictKeys}}
        \cup {List(f) : f \in UNION {[D -> children] : D \in {{}, ListIndices}}}

\* the templates: mappings and lists down to two levels, every scalar "o"
Templates == Containers({Leaf("o")} \cup Containers({Leaf("o")}))

UpdatePaths ==
    {<<k>> : k \in Range(KeyOrder)} \cup {<<k, j>> : k \in Range(KeyOrder), j \in Range(KeyOrder)}

\* the sets of paths a specification names: no path goes through another
UpdateSets ==
    {u \in SUBSET UpdatePaths :
        /\ Cardinality(u) \in 1..MaxUpdates
        /\ \A p \in u : Len(p) = 2 => <<p[1]>> \notin u}

\* the specification as the nested dict the caller writes, every new value "n"
SpecDict(u) ==
    Dict([k \in {p[1] : p \in u} |->
            IF <<k>> \in u THEN Leaf("n")
            ELSE Dict([j \in {p[2] : p \in {q \in u : Len(q) = 2 /\ q[1] = k}} |-> Leaf("n")])])

KeysOf(spec) == SelectSeq(KeyOrder, LAMBDA k : k \in DOMAIN spec.items)

\* data[key]: the exception it raises, or "none"
getitem_raises(data, key) ==
    CASE data.kind = "leaf" -> "TypeError"
      [] data.kind = "dict" -> IF key \in DOMAIN data.items THEN "none" ELSE "KeyError"
      [] data.kind = "list" -> IF key \notin ListIndices THEN "TypeError"
                               ELSE IF key \in DOMAIN data.items THEN "none" ELSE "IndexError"

\* data[key] = value: the exception it raises, or "none"; a mapping takes a new key
setitem_raises(data, key) ==
    CASE data.kind = "leaf" -> "TypeError"
      [] data.kind = "dict" -> "none"
      [] data.kind = "list" -> IF key \notin ListIndices THEN "TypeError"
                               ELSE IF key \in DOMAIN data.items THEN "none" ELSE "IndexError"

\* an assignment that forgets the other entries of data
setitem_alone(data, key, value) == [data EXCEPT !.items = [k \in {key} |-> value]]

\* data[key] = value
setitem(data, key, value) ==
    [data EXCEPT !.items = [k \in DOMAIN data.items \cup {key} |->
                               IF k = key THEN value ELSE data.items[k]]]

RECURSIVE update_keys(_, _, _)
\* the loop "for key in update_spec" from the keys left to visit
update_keys(data, spec, keys) ==
    IF keys = <<>> THEN [raise |-> "none", data |-> data]
    ELSE LET key == Head(keys)
             value == spec.items[key]
         IN  IF value.kind = "dict"
             THEN IF getitem_raises(data, key) # "none"
                  THEN [raise |-> getitem_raises(data, key), data |-> data]
                  ELSE LET r == update_keys(data.items[key], value, KeysOf(value))
                       IN  IF r.raise # "none" THEN [raise |-> r.raise, data |-> data]
                           ELSE update_keys(setitem(data, key, r.data), spec, Tail(keys))
             ELSE IF setitem_raises(data, key) # "none"
                  THEN [raise |-> setitem_raises(data, key), data |-> data]
                  ELSE update_keys(setitem(data, key, value), spec, Tail(keys))

update_dict_from_spec(data, spec) == update_keys(data, spec, KeysOf(spec))

\* build_yaml is called with a template file and a specification
InitYaml ==
    /\ InferIdle
    /\ AggIdle
    /\ HistIdle
    /\ RunIdle
    /\ HdrIdle
    /\ CassIdle
    /\ RefIdle
    /\ RampIdle
    /\ CycIdle
    /\ template \in Templates
    /\ \E u \in UpdateSets : update_spec = SpecDict(u)
    /\ output = <<>>
    /\ yaml_outcome = "call"

\* build_yaml: the template is loaded, updated and dumped to the output
\* file; an exception of the update leaves before the file is opened
build_yaml ==
    /\ yaml_outcome = "call"
    /\ LET r == update_dict_from_spec(template, update_spec)
       IN  IF r.raise # "none"
           THEN /\ yaml_outcome' = r.raise
                /\ UNCHANGED output
           ELSE /\ yaml_outcome' = "ok"
                /\ output' = r.data
    /\ UNCHANGED <<template, update_spec>>
    /\ UNCHANGED <<inferVars, aggVars, histVars, runVars, hdrVars, cassVars, refVars, rampVars, cycVars>>

NextYaml == build_yaml

SpecYaml == InitYaml /\ [][NextYaml]_vars

\* the scalar properties of a tree: the path of each scalar and its value
RECURSIVE Leaves(_, _)
Leaves(node, path) ==
    IF node.kind = "leaf" THEN {<<path, node.val>>}
    ELSE UNION {Leaves(node.items[k], Append(path, k)) : k \in DOMAIN node.items}

IsPrefix(p, q) == Len(p) <= Len(q) /\ SubSeq(q, 1, Len(p)) = p

\* C21: when build_yaml has written its output, the scalar properties of the
\* output are those the specification names, with the values it gives, and
\* those of the template that lie under no path the specification names, with
\* the values they had; when the update raised, nothing was written.
C21_UpdatesExactlyNamedLeaves ==
    /\ yaml_outcome = "ok" =>
          LET named == Leaves(update_spec, <<>>)
              old   == Leaves(template, <<>>)
              kept  == {l \in old : \A n \in named : ~IsPrefix(n[1], l[1])}
          IN  Leaves(output, <<>>) = named \cup kept
    /\ yaml_outcome \notin {"ok", "call", "idle"} => output = <<>>

\* a template with two scalars under a and one under b, of which a.b alone
\* was updated
C21_Witness ==
    /\ yaml_outcome = "ok"
    /\ Leaves(update_spec, <<>>) = {<< <<"a", "b">>, "n" >>}
    /\ Leaves(template, <<>>) =
          {<< <<"a", "a">>, "o" >>, << <<"a", "b">>, "o" >>, << <<"b", "0">>, "o" >>}
    /\ Leaves(output, <<>>) =
          {<< <<"a", "a">>, "o" >>, << <<"a", "b">>, "n" >>, << <<"b", "0">>, "o" >>}

(***************************************************************************)
(* The rampup schedule of a campaign (xp1_baseline/run.py 117-262,         *)
(* xp2_data_locality/run.py 174-266).                                      *)
(***************************************************************************)

\* rampup_done["set"] and rampup_done["run"] hold None or an index (>= 0)
None == 0 - 1

RAMPUP_MODE_ALWAYS == "always"

RAMPUP_MODE_KEEP_BETWEEN_SETS == "keep_set"

RAMPUP_MODE_KEEP_BETWEEN_RUNS == "keep_run"

RampupModes ==
    {RAMPUP_MODE_ALWAYS, RAMPUP_MODE_KEEP_BETWEEN_SETS, RAMPUP_MODE_KEEP_BETWEEN_RUNS}

\* a schedule in which keep_run looks at the campaign instead of the row
should_rampup_campaign(mode, done) ==
    \/ mode = RAMPUP_MODE_ALWAYS
    \/ mode = RAMPUP_MODE_KEEP_BETWEEN_SETS /\ done.set = None
    \/ mode = RAMPUP_MODE_KEEP_BETWEEN_RUNS /\ done.set = None

should_rampup(mode, done) ==
    \/ mode = RAMPUP_MODE_ALWAYS
    \/ mode = RAMPUP_MODE_KEEP_BETWEEN_SETS /\ done.set = None
    \/ mode = RAMPUP_MODE_KEEP_BETWEEN_RUNS /\ done.run = None

InitRamp ==
    /\ InferIdle
    /\ AggIdle
    /\ HistIdle
    /\ RunIdle
    /\ HdrIdle
    /\ CassIdle
    /\ RefIdle
    /\ YamlIdle
    /\ CycIdle
    /\ \E n \in 1..MaxRows :
          rp_rows \in [1..n -> [rampup_mode : RampupModes, repeat : 0..MaxRepeat]]
    /\ rp_id = 0
    /\ rp_run = 0
    /\ rampup_done = [set |-> None, run |-> None]
    /\ rp_pc = "rows"
    /\ rp_log = <<>>
    /\ rp_outcome = "none"

\* the next row of filtered_parameters: rampup_done["run"] = None
RampRow ==
    /\ rp_pc = "rows"
    /\ rp_id < Len(rp_rows)
    /\ rp_id' = rp_id + 1
    /\ rp_run' = 0
    /\ rampup_done' = [rampup_done EXCEPT !.run = None]
    /\ rp_pc' = "run"
    /\ UNCHANGED <<rp_rows, rp_log, rp_outcome>>
    /\ UNCHANGED <<inferVars, aggVars, histVars, runVars, hdrVars, cassVars, refVars, yamlVars, cycVars>>

\* a run up to deploy_and_start: should_rampup is computed and handed to
\* cassandra.init as reset
RampDeploy ==
    /\ rp_pc = "run"
    /\ rp_run < rp_rows[rp_id].repeat
    /\ rp_log' = Append(rp_log, [set    |-> rp_id,
                                 run    |-> rp_run,
                                 mode   |-> rp_rows[rp_id].rampup_mode,
                                 reset  |-> should_rampup(rp_rows[rp_id].rampup_mode, rampup_done),
                                 rampup |-> FALSE,
                                 done   |-> FALSE])
    /\ rp_pc' = "deployed"
    /\ UNCHANGED <<rp_rows, rp_id, rp_run, rampup_done, rp_outcome>>
    /\ UNCHANGED <<inferVars, aggVars, histVars, runVars, hdrVars, cassVars, refVars, yamlVars, cycVars>>

\* the rest of the run: the rampup phase when should_rampup, then the main
\* experiment and the saving of its results
RampMain ==
    /\ rp_pc = "deployed"
    /\ LET rampup == should_rampup(rp_rows[rp_id].rampup_mode, rampup_done)
       IN  /\ rp_log' = [rp_log EXCEPT ![Len(rp_log)].rampup = rampup,
                                       ![Len(rp_log)].done = TRUE]
           /\ rampup_done' = IF rampup THEN [set |-> rp_id, run |-> rp_run]
                             ELSE rampup_done
    /\ rp_run' = rp_run + 1
    /\ rp_pc' = "run"
    /\ UNCHANGED <<rp_rows, rp_id, rp_outcome>>
    /\ UNCHANGED <<inferVars, aggVars, histVars, runVars, hdrVars, cassVars, refVars, yamlVars, cycVars>>

\* a command on the machines fails after the deployment: the exception
\* leaves run()
RampRaise ==
    /\ rp_pc = "deployed"
    /\ rp_pc' = "stop"
    /\ rp_outcome' = "EnosFailedHostsError"
    /\ UNCHANGED <<rp_rows, rp_id, rp_run, rampup_done, rp_log>>
    /\ UNCHANGED <<inferVars, aggVars, histVars, runVars, hdrVars, cassVars, refVars, yamlVars, cycVars>>

\* range(_repeat) is exhausted: back to the loop over the rows
RampEndRow ==
    /\ rp_pc = "run"
    /\ rp_run >= rp_rows[rp_id].repeat
    /\ rp_pc' = "rows"
    /\ UNCHANGED <<rp_rows, rp_id, rp_run, rampup_done, rp_log, rp_outcome>>
    /\ UNCHANGED <<inferVars, aggVars, histVars, runVars, hdrVars, cassVars, refVars, yamlVars, cycVars>>

\* the rows are exhausted: run() returns
RampReturn ==
    /\ rp_pc = "rows"
    /\ rp_id = Len(rp_rows)
    /\ rp_pc' = "stop"
    /\ rp_outcome' = "ok"
    /\ UNCHANGED <<rp_rows, rp_id, rp_run, rampup_done, rp_log>>
    /\ UNCHANGED <<inferVars, aggVars, histVars, runVars, hdrVars, cassVars, refVars, yamlVars, cycVars>>

NextRamp == RampRow \/ RampDeploy \/ RampMain \/ RampRaise \/ RampEndRow \/ RampReturn

SpecRamp == InitRamp /\ [][NextRamp]_vars

\* the runs before run i of the campaign in which the rampup phase was executed
RampupsBefore(i) == {j \in 1..(i - 1) : rp_log[j].rampup}

MaxOps == 7

MaxClients == 3

\* int(x / y) for x >= 0 and y > 0
int_div(x, y) == x \div y

\* xp1, xp2: ops_per_client = _ops / _clients is a float;
\* start_cycle = int(index * ops_per_client)
start_cycle(index, ops, clients) == int_div(index * ops, clients)

\* end_cycle = int(start_cycle + ops_per_client)
end_cycle(index, ops, clients) == start_cycle(index, ops, clients) + int_div(ops, clients)

\* experiment: read_ops_per_client = int(read_ratio * ops_per_client) with
\* read_ratio = _read_ratio / rw_total; the same for write
ratio_ops_per_client(part, ratio, ops, clients) ==
    int_div(part * ops, (ratio[1] + ratio[2]) * clients)

InitCycles ==
    /\ InferIdle
    /\ AggIdle
    /\ HistIdle
    /\ RunIdle
    /\ HdrIdle
    /\ CassIdle
    /\ RefIdle
    /\ YamlIdle
    /\ RampIdle
    /\ cy_campaign \in {"xp", "experiment"}
    /\ cy_ops \in 0..MaxOps
    /\ cy_clients \in 1..MaxClients
    /\ cy_ratio \in IF cy_campaign = "xp" THEN {<<1, 0>>} ELSE {<<1, 0>>, <<1, 1>>}
    /\ cy_cmds = <<>>
    /\ cy_pc = "loop"

\* xp1, xp2: one iteration of "for index, host in enumerate(nb.hosts)"
MainCmdXp ==
    /\ cy_pc = "loop"
    /\ cy_campaign = "xp"
    /\ Len(cy_cmds) < cy_clients
    /\ LET index == Len(cy_cmds)
       IN  cy_cmds' = Append(cy_cmds,
                [read  |-> <<start_cycle(index, cy_ops, cy_clients),
                             end_cycle(index, cy_ops, cy_clients)>>,
                 write |-> <<0, 0>>])
    /\ UNCHANGED <<cy_campaign, cy_ops, cy_clients, cy_ratio, cy_pc>>
    /\ UNCHANGED <<inferVars, aggVars, histVars, runVars, hdrVars, cassVars, refVars, yamlVars, rampVars>>

\* experiment: one iteration of "for index, host in enumerate(nb.hosts)"
MainCmdExperiment ==
    /\ cy_pc = "loop"
    /\ cy_campaign = "experiment"
    /\ Len(cy_cmds) < cy_clients
    /\ LET index == Len(cy_cmds)
           read_ops_per_client == ratio_ops_per_client(cy_ratio[1], cy_ratio, cy_ops, cy_clients)
           write_ops_per_client == ratio_ops_per_client(cy_ratio[2], cy_ratio, cy_ops, cy_clients)
           read_start == index * read_ops_per_client
           write_start == index * write_ops_per_client
       IN  cy_cmds' = Append(cy_cmds,
                [read  |-> <<read_start, read_start + read_ops_per_client>>,
                 write |-> IF cy_ratio[2] > 0
                           THEN <<write_start, write_start + write_ops_per_client>>
                           ELSE <<0, 0>>])
    /\ UNCHANGED <<cy_campaign, cy_ops, cy_clients, cy_ratio, cy_pc>>
    /\ UNCHANGED <<inferVars, aggVars, histVars, runVars, hdrVars, cassVars, refVars, yamlVars, rampVars>>

\* the loop is over: nb.command launches main_cmds
Launch ==
    /\ cy_pc = "loop"
    /\ Len(cy_cmds) = cy_clients
    /\ cy_pc' = "launched"
    /\ UNCHANGED <<cy_campaign, cy_ops, cy_clients, cy_ratio, cy_cmds>>
    /\ UNCHANGED <<inferVars, aggVars, histVars, runVars, hdrVars, cassVars, refVars, yamlVars, rampVars>>

NextCycles == MainCmdXp \/ MainCmdExperiment \/ Launch

SpecCycles == InitCycles /\ [][NextCycles]_vars

\* the cycles of a range
CyclesOf(range) == range[1]..(range[2] - 1)

ReadCycles(i) == CyclesOf(cy_cmds[i].read)

ReadsDisjoint ==
    \A i, j \in DOMAIN cy_cmds : i # j => ReadCycles(i) \cap ReadCycles(j) = {}

\* C27: when the commands of a read-only run are launched, the ranges of
\* its clients are pairwise disjoint and their union is the cycles
\* 0, ..., ops - 1 of the run.
C27_CyclesPartition ==
    (cy_pc = "launched" /\ cy_ratio[2] = 0) =>
        /\ ReadsDisjoint
        /\ UNION {ReadCycles(i) : i \in DOMAIN cy_cmds} = 0..(cy_ops - 1)

\* C27, the part that holds: the ranges are pairwise disjoint, each holds
\* int(ops / clients) cycles of 0, ..., ops - 1, and when the client count
\* divides ops they cover all of them.
C27_CyclesDisjoint ==
    cy_ratio # <<>> /\ cy_ratio[2] = 0 =>
        /\ ReadsDisjoint
        /\ \A i \in DOMAIN cy_cmds :
              /\ ReadCycles(i) \subseteq 0..(cy_ops - 1)
              /\ Cardinality(ReadCycles(i)) = cy_ops \div cy_clients
        /\ (cy_pc = "launched" /\ cy_ops % cy_clients = 0) =>
              UNION {ReadCycles(i) : i \in DOMAIN cy_cmds} = 0..(cy_ops - 1)

\* five cycles on three clients in xp1: 0..1, 1..2, 3..4
C27_Truncated ==
    /\ cy_pc = "launched"
    /\ cy_campaign = "xp"
    /\ cy_ops = 5
    /\ cy_cmds = << [read |-> <<0, 1>>, write |-> <<0, 0>>],
                    [read |-> <<1, 2>>, write |-> <<0, 0>>],
                    [read |-> <<3, 4>>, write |-> <<0, 0>>] >>

=============================================================================
